---- MODULE Spec2Model ----
(***************************************************************************)
(* Verification model of the BabylonCpp runtime core.                      *)
(*                                                                         *)
(* Part I  - Engine (src/engine/engine.cpp): the device-state cache, the   *)
(*           reference-counted buffers, vertex attributes, texture units   *)
(*           and the framebuffer / render-target switch; the render loops, *)
(*           the FPS window, texture loading and shader programs.          *)
(* Part II - Bone (src/bones/bone.cpp): the local, absolute and inverted   *)
(*           absolute transforms of the bones of a skeleton.               *)
(*                                                                         *)
(* The Engine object is the record  engine ; the graphics context behind   *)
(* the IGLRenderingContext interface is the record  gl , which keeps the   *)
(* device-side bindings and the list of device calls issued by the last    *)
(* engine operation.  Every C++ method is an operator over a "world"       *)
(* record  w = [engine, gl, buffers, textures]  so that a method that calls *)
(* another method is the composition of the two operators; an action       *)
(* applies one public method to the current world.                         *)
(***************************************************************************)
EXTENDS Integers, Sequences, FiniteSets, TLC

VARIABLES
  engine,    \* the fields of the Engine object
  gl,        \* the device behind _gl: bindings and the calls of the last operation
  buffers,   \* the IGLBuffer objects, by handle
  textures,  \* the IGLTexture objects, by handle
  crashed,   \* TRUE once an operation dereferenced a null pointer and the process ended
  lastOp,    \* the last engine operation: [op, args, ret, thrown]
  bindRun,   \* the run of consecutive bindArrayBuffer calls made by the client
  lastViewport,  \* the Viewport of the client's most recent setViewport call
  env,       \* what the engine reaches outside itself: the clock, the scene's
             \* pending-data tracker and the image loads in flight
  bones,     \* the Bone objects of the skeleton, by handle
  sps,       \* the SolidParticleSystem object, or <<>> when none is constructed
  ray        \* the Ray object and its queries, or <<>> when none is constructed

vars == <<engine, gl, buffers, textures, crashed, lastOp, bindRun, lastViewport, env, bones,
          sps, ray>>

(***************************************************************************)
(* Bounds of the model and values of the program.                          *)
(***************************************************************************)
NULL == 0            \* nullptr; every handle is a positive number
MaxBuffers == 2      \* IGLBuffer objects the device hands out
MaxRefs == 2         \* owners that share one buffer
MaxDeletes == 2      \* device deletions recorded per buffer
MaxLocation == 3     \* highest vertex attribute location
MaxRun == 3          \* length of the recorded run of bindArrayBuffer calls

Buffers == 1..MaxBuffers
Locations == 0..MaxLocation
ARRAY_BUFFER == "ARRAY_BUFFER"
ELEMENT_ARRAY_BUFFER == "ELEMENT_ARRAY_BUFFER"
BufferTargets == {ARRAY_BUFFER, ELEMENT_ARRAY_BUFFER}

\* std::unordered_map: m[k] = v inserts the key when it is absent
Put(m, k, v) == [x \in (DOMAIN m) \cup {k} |-> IF x = k THEN v ELSE m[x]]

\* the empty std::unordered_map
EmptyMap == [x \in {} |-> NULL]

\* a device call: recorded in the list of calls of the running operation
GlCall(w, call) == [w EXCEPT !.gl.calls = Append(@, call)]

\* the world an operation starts in: no device call issued yet, nothing returned
\* or thrown
World ==
  [engine |-> engine, gl |-> [gl EXCEPT !.calls = <<>>], buffers |-> buffers,
   textures |-> textures, crashed |-> crashed, ret |-> NULL, thrown |-> FALSE,
   env |-> env]

\* the number of device calls named  name  in a list of calls
RECURSIVE CountCalls(_, _)
CountCalls(calls, name) ==
  IF calls = <<>> THEN 0
  ELSE (IF Head(calls)[1] = name THEN 1 ELSE 0) + CountCalls(Tail(calls), name)

(***************************************************************************)
(* Buffers: the bound-buffer cache.                                        *)
(***************************************************************************)
\* bindBuffer with a plausible fault: the cache is not consulted, every request
\* reaches the device
bindBuffer_nocache(w, buffer, target) ==
  LET w1 == GlCall(w, <<"bindBuffer", target, buffer>>)
  IN [w1 EXCEPT !.gl.boundBuffer[target] = buffer,
                !.engine._currentBoundBuffer = Put(@, target, buffer)]

bindBuffer(w, buffer, target) ==
  IF \/ target \notin DOMAIN w.engine._currentBoundBuffer
     \/ w.engine._currentBoundBuffer[target] # buffer
  THEN LET w1 == GlCall(w, <<"bindBuffer", target, buffer>>)
       IN [w1 EXCEPT !.gl.boundBuffer[target] = buffer,
                     !.engine._currentBoundBuffer = Put(@, target, buffer)]
  ELSE w

bindArrayBuffer(w, buffer) == bindBuffer(w, buffer, ARRAY_BUFFER)

bindIndexBuffer(w, buffer) == bindBuffer(w, buffer, ELEMENT_ARRAY_BUFFER)

_resetVertexBufferBinding(w) ==
  [bindArrayBuffer(w, NULL) EXCEPT !.engine._cachedVertexBuffers = NULL]

_resetIndexBufferBinding(w) ==
  [bindIndexBuffer(w, NULL) EXCEPT !.engine._cachedIndexBuffer = NULL]

\* _gl->createBuffer(): the device hands out the next unused handle
FreshBuffer(w) == CHOOSE b \in Buffers :
  /\ ~w.buffers[b].created
  /\ \A c \in Buffers : ~w.buffers[c].created => b <= c

\* the IGLBuffer object as the device returns it; its  references  field is
\* whatever the IGLBuffer constructor left there ( r0 )
glCreateBuffer(w, r0) ==
  [GlCall(w, <<"createBuffer", FreshBuffer(w)>>)
     EXCEPT !.buffers[FreshBuffer(w)] = [created |-> TRUE, references |-> r0, deleted |-> 0]]

\* createVertexBuffer and createDynamicVertexBuffer differ in the usage hint only
createVertexBuffer(w, r0, usage) ==
  LET vbo == FreshBuffer(w)
      w1 == glCreateBuffer(w, r0)
      w2 == bindArrayBuffer(w1, vbo)
      w3 == GlCall(w2, <<"bufferData", ARRAY_BUFFER, usage>>)
      w4 == _resetVertexBufferBinding(w3)
  IN [w4 EXCEPT !.buffers[vbo].references = 1, !.ret = vbo]

updateDynamicVertexBuffer(w, vertexBuffer) ==
  LET w1 == bindArrayBuffer(w, vertexBuffer)
      w2 == GlCall(w1, <<"bufferSubData", ARRAY_BUFFER>>)
  IN _resetVertexBufferBinding(w2)

createIndexBuffer(w, r0) ==
  LET vbo == FreshBuffer(w)
      w1 == glCreateBuffer(w, r0)
      w2 == bindIndexBuffer(w1, vbo)
      w3 == GlCall(w2, <<"bufferData", ELEMENT_ARRAY_BUFFER, "STATIC_DRAW">>)
      w4 == _resetIndexBufferBinding(w3)
  IN [w4 EXCEPT !.buffers[vbo].references = 1, !.ret = vbo]

createInstancesBuffer(w, r0) ==
  LET buffer == FreshBuffer(w)
      w1 == glCreateBuffer(w, r0)
      w2 == bindArrayBuffer(w1, buffer)
  IN [GlCall(w2, <<"bufferData", ARRAY_BUFFER, "DYNAMIC_DRAW">>) EXCEPT !.ret = buffer]

deleteInstancesBuffer(w, buffer) ==
  [GlCall(w, <<"deleteBuffer", buffer>>) EXCEPT !.buffers[buffer].deleted = @ + 1]

\* _releaseBuffer with a plausible fault: the device resource is freed while
\* other owners still hold it
_releaseBuffer_eager(w, buffer) ==
  LET w1 == [w EXCEPT !.buffers[buffer].references = @ - 1]
  IN [GlCall(w1, <<"deleteBuffer", buffer>>)
        EXCEPT !.buffers[buffer].deleted = @ + 1, !.ret = TRUE]

_releaseBuffer(w, buffer) ==
  LET w1 == [w EXCEPT !.buffers[buffer].references = @ - 1]
  IN IF w1.buffers[buffer].references = 0
     THEN [GlCall(w1, <<"deleteBuffer", buffer>>)
             EXCEPT !.buffers[buffer].deleted = @ + 1, !.ret = TRUE]
     ELSE [w1 EXCEPT !.ret = FALSE]

(***************************************************************************)
(* Vertex attributes: bindBuffers and the attribute pointers.              *)
(***************************************************************************)
\* Effect objects, by handle: the attribute names a shader declares and the
\* location the device gave each (-1: the attribute is not active)
Effects == {1, 2, 3}
AttributeNames == {"position", "normal"}
getAttributesNames(effect) == <<"position", "normal">>
getAttributeLocation(effect, index) ==
  (IF effect = 1 THEN <<0, 1>> ELSE IF effect = 2 THEN <<1, 0>> ELSE <<2, -1>>)[index]

\* VertexBuffer objects, by handle
VertexBuffers == {1, 2}
VertexBufferObject(vb) ==
  IF vb = 1 THEN [buffer |-> 1, size |-> 3, strideSize |-> 3, offset |-> 0, isInstanced |-> FALSE]
  ELSE [buffer |-> 2, size |-> 4, strideSize |-> 4, offset |-> 0, isInstanced |-> TRUE]

\* the vertex-buffer maps the model's meshes hand to bindBuffers, name ->
\* VertexBuffer*: complete, with a null entry, with an instanced buffer, and
\* with no entry for "position"
VertexBufferMaps ==
  {[n \in AttributeNames |-> 1],
   [n \in AttributeNames |-> IF n = "position" THEN 1 ELSE NULL],
   [n \in AttributeNames |-> IF n = "position" THEN 2 ELSE 1],
   [n \in {"normal"} |-> 1]}

\* what dereferencing the null _caps.instancedArrays does in a given build
UBOutcomes == {"crash", "returns"}

\* std::vector<bool>::resize(n), n above the size: the new slots are false
Resize(v, n) == [i \in 1..n |-> IF i <= Len(v) THEN v[i] ELSE FALSE]

\* _gl->enableVertexAttribArray / disableVertexAttribArray
glSetVertexAttribArray(w, location, on) ==
  [GlCall(w, <<IF on THEN "enableVertexAttribArray" ELSE "disableVertexAttribArray", location>>)
     EXCEPT !.gl.attribEnabled[location] = on]

\* vertexAttribPointer with a plausible fault: the cached pointer is compared
\* by its buffer alone
vertexAttribPointer_buffer(w, buffer, indx, size, type, normalized, stride, offset) ==
  LET ptrs == w.engine._currentBufferPointers
      changed == IF indx \notin DOMAIN ptrs THEN TRUE ELSE ptrs[indx].buffer # buffer
      pointer == [indx |-> indx, size |-> size, type |-> type, normalized |-> normalized,
                  stride |-> stride, offset |-> offset, buffer |-> buffer]
      w1 == [w EXCEPT !.engine._currentBufferPointers = Put(@, indx, pointer)]
  IN IF changed
     THEN GlCall(bindArrayBuffer(w1, buffer),
                 <<"vertexAttribPointer", indx, size, type, normalized, stride, offset>>)
     ELSE w1

vertexAttribPointer(w, buffer, indx, size, type, normalized, stride, offset) ==
  LET ptrs == w.engine._currentBufferPointers
      changed ==
        IF indx \notin DOMAIN ptrs THEN TRUE
        ELSE \/ ptrs[indx].buffer # buffer
             \/ ptrs[indx].size # size
             \/ ptrs[indx].type # type
             \/ ptrs[indx].normalized # normalized
             \/ ptrs[indx].stride # stride
             \/ ptrs[indx].offset # offset
      pointer == [indx |-> indx, size |-> size, type |-> type, normalized |-> normalized,
                  stride |-> stride, offset |-> offset, buffer |-> buffer]
      w1 == [w EXCEPT !.engine._currentBufferPointers = Put(@, indx, pointer)]
  IN IF changed
     THEN GlCall(bindArrayBuffer(w1, buffer),
                 <<"vertexAttribPointer", indx, size, type, normalized, stride, offset>>)
     ELSE w1

\* _caps.instancedArrays->vertexAttribDivisorANGLE(...): the pointer is null
\* (set in the constructor and never assigned again), so the call is undefined
vertexAttribDivisorANGLE(w, ub) ==
  IF ub = "crash" THEN [w EXCEPT !.crashed = TRUE] ELSE w

\* the attribute loop of bindBuffers, from attribute  index  on; it ends early
\* when vertexBuffers.at() throws or the process has crashed
RECURSIVE bindBuffersLoop(_, _, _, _, _)
bindBuffersLoop(w, vertexBuffers, effect, index, ub) ==
  IF index > Len(getAttributesNames(effect)) \/ w.thrown \/ w.crashed THEN w
  ELSE
    LET order == getAttributeLocation(effect, index)
        name == getAttributesNames(effect)[index]
        enabled == w.engine._vertexAttribArraysEnabled
    IN IF order < 0 THEN bindBuffersLoop(w, vertexBuffers, effect, index + 1, ub)
       ELSE IF name \notin DOMAIN vertexBuffers THEN [w EXCEPT !.thrown = TRUE]
       ELSE IF vertexBuffers[name] = NULL
       THEN bindBuffersLoop(
              IF order + 1 <= Len(enabled)
              THEN [glSetVertexAttribArray(w, order, FALSE)
                      EXCEPT !.engine._vertexAttribArraysEnabled[order + 1] = FALSE]
              ELSE w,
              vertexBuffers, effect, index + 1, ub)
       ELSE
         LET vertexBuffer == VertexBufferObject(vertexBuffers[name])
             w1 == IF order + 1 > Len(enabled)
                   THEN [glSetVertexAttribArray(w, order, TRUE)
                           EXCEPT !.engine._vertexAttribArraysEnabled =
                                     [Resize(enabled, order + 1) EXCEPT ![order + 1] = TRUE]]
                   ELSE w
             w2 == vertexAttribPointer(w1, vertexBuffer.buffer, order, vertexBuffer.size,
                                       "FLOAT", FALSE, vertexBuffer.strideSize * 4,
                                       vertexBuffer.offset * 4)
             w3 == IF ~vertexBuffer.isInstanced THEN w2
                   ELSE LET w2a == vertexAttribDivisorANGLE(w2, ub)
                        IN IF w2a.crashed THEN w2a
                           ELSE [w2a EXCEPT
                                   !.engine._currentInstanceLocations = Append(@, order),
                                   !.engine._currentInstanceBuffers = Append(@, vertexBuffer.buffer)]
         IN bindBuffersLoop(w3, vertexBuffers, effect, index + 1, ub)

bindBuffers(w, vertexBuffers, indexBuffer, effect, ub) ==
  LET w1 == IF \/ w.engine._cachedVertexBuffersMap # vertexBuffers
               \/ w.engine._cachedEffectForVertexBuffers # effect
            THEN bindBuffersLoop(
                   [w EXCEPT !.engine._cachedVertexBuffersMap = vertexBuffers,
                             !.engine._cachedEffectForVertexBuffers = effect],
                   vertexBuffers, effect, 1, ub)
            ELSE w
  IN IF w1.thrown \/ w1.crashed THEN w1
     ELSE IF indexBuffer # NULL /\ w1.engine._cachedIndexBuffer # indexBuffer
     THEN bindIndexBuffer([w1 EXCEPT !.engine._cachedIndexBuffer = indexBuffer], indexBuffer)
     ELSE w1

\* the loop of unbindInstanceAttributes from entry  i  on;  boundBuffer  is its local
RECURSIVE unbindInstanceLoop(_, _, _, _)
unbindInstanceLoop(w, i, boundBuffer, ub) ==
  IF i > Len(w.engine._currentInstanceLocations) \/ w.crashed THEN w
  ELSE LET instancesBuffer == w.engine._currentInstanceBuffers[i]
           w1 == IF boundBuffer # instancesBuffer THEN bindArrayBuffer(w, instancesBuffer) ELSE w
       IN unbindInstanceLoop(vertexAttribDivisorANGLE(w1, ub), i + 1, instancesBuffer, ub)

unbindInstanceAttributes(w, ub) ==
  LET w1 == unbindInstanceLoop(w, 1, NULL, ub)
  IN IF w1.crashed THEN w1
     ELSE [w1 EXCEPT !.engine._currentInstanceBuffers = <<>>,
                     !.engine._currentInstanceLocations = <<>>]

\* _caps.maxVertexAttribs: the device supports every location of the model
maxVertexAttribs == MaxLocation + 1

RECURSIVE unbindAllAttributesLoop(_, _)
unbindAllAttributesLoop(w, i) ==
  IF i >= Len(w.engine._vertexAttribArraysEnabled) THEN w
  ELSE IF i >= maxVertexAttribs \/ ~w.engine._vertexAttribArraysEnabled[i + 1]
  THEN unbindAllAttributesLoop(w, i + 1)
  ELSE unbindAllAttributesLoop(
         [glSetVertexAttribArray(w, i, FALSE)
            EXCEPT !.engine._vertexAttribArraysEnabled[i + 1] = FALSE], i + 1)

unbindAllAttributes(w) == unbindAllAttributesLoop(w, 0)

(***************************************************************************)
(* Instanced attributes.                                                   *)
(***************************************************************************)
\* _gl->bindBuffer called on the device directly, without the engine's cache
glBindBuffer(w, target, buffer) ==
  [GlCall(w, <<"bindBuffer", target, buffer>>) EXCEPT !.gl.boundBuffer[target] = buffer]

\* the loop of updateAndBindInstancesBuffer(buffer, data, Uint32Array) from  index  on
RECURSIVE updateAndBindLoopOffsets(_, _, _, _, _)
updateAndBindLoopOffsets(w, instancesBuffer, offsetLocations, index, ub) ==
  IF index >= 4 \/ w.crashed THEN w
  ELSE
    LET offsetLocation == offsetLocations[index + 1]
        w1 == glSetVertexAttribArray(w, offsetLocation, TRUE)
        w2 == IF offsetLocation > Len(w1.engine._vertexAttribArraysEnabled)
              THEN [glSetVertexAttribArray(w1, offsetLocation, TRUE)
                      EXCEPT !.engine._vertexAttribArraysEnabled =
                                [Resize(@, offsetLocation + 1) EXCEPT ![offsetLocation + 1] = TRUE]]
              ELSE w1
        w3 == vertexAttribPointer(w2, instancesBuffer, offsetLocation, 4, "FLOAT", FALSE,
                                  64, index * 16)
        w4 == vertexAttribDivisorANGLE(w3, ub)
        w5 == IF w4.crashed THEN w4
              ELSE [w4 EXCEPT !.engine._currentInstanceLocations = Append(@, offsetLocation),
                              !.engine._currentInstanceBuffers = Append(@, instancesBuffer)]
    IN updateAndBindLoopOffsets(w5, instancesBuffer, offsetLocations, index + 1, ub)

updateAndBindInstancesBufferOffsets(w, instancesBuffer, offsetLocations, ub) ==
  LET w1 == glBindBuffer(w, ARRAY_BUFFER, instancesBuffer)
      w2 == GlCall(w1, <<"bufferSubData", ARRAY_BUFFER>>)
  IN updateAndBindLoopOffsets(w2, instancesBuffer, offsetLocations, 0, ub)

\* the stride loop of the InstancingAttributeInfo overload
RECURSIVE InstancingStride(_)
InstancingStride(offsetLocations) ==
  IF offsetLocations = <<>> THEN 0
  ELSE Head(offsetLocations).attributeSize * 4 + InstancingStride(Tail(offsetLocations))

\* the loop of updateAndBindInstancesBuffer(buffer, data, vector<InstancingAttributeInfo>)
RECURSIVE updateAndBindLoopInfos(_, _, _, _, _, _)
updateAndBindLoopInfos(w, instancesBuffer, offsetLocations, stride, i, ub) ==
  IF i > Len(offsetLocations) \/ w.crashed THEN w
  ELSE
    LET ai == offsetLocations[i]
        w1 == IF ai.index > Len(w.engine._vertexAttribArraysEnabled)
              THEN [glSetVertexAttribArray(w, ai.index, TRUE)
                      EXCEPT !.engine._vertexAttribArraysEnabled =
                                [Resize(@, ai.index + 1) EXCEPT ![ai.index + 1] = TRUE]]
              ELSE w
        w2 == glSetVertexAttribArray(w1, ai.index, TRUE)
        w3 == vertexAttribPointer(w2, instancesBuffer, ai.index, ai.attributeSize,
                                  ai.attribyteType, ai.normalized, stride, ai.offset)
        w4 == vertexAttribDivisorANGLE(w3, ub)
        w5 == IF w4.crashed THEN w4
              ELSE [w4 EXCEPT !.engine._currentInstanceLocations = Append(@, ai.index),
                              !.engine._currentInstanceBuffers = Append(@, instancesBuffer)]
    IN updateAndBindLoopInfos(w5, instancesBuffer, offsetLocations, stride, i + 1, ub)

updateAndBindInstancesBufferInfos(w, instancesBuffer, offsetLocations, ub) ==
  LET w1 == glBindBuffer(w, ARRAY_BUFFER, instancesBuffer)
      w2 == GlCall(w1, <<"bufferSubData", ARRAY_BUFFER>>)
  IN updateAndBindLoopInfos(w2, instancesBuffer, offsetLocations,
                            InstancingStride(offsetLocations), 1, ub)

\* the InstancingAttributeInfo lists the model's meshes pass
InstancingInfoLists ==
  {<<>>,
   <<[index |-> 2, attributeSize |-> 4, attribyteType |-> "FLOAT", normalized |-> FALSE,
      offset |-> 0]>>}

(***************************************************************************)
(* Texture units.                                                          *)
(***************************************************************************)
_maxTextureChannels == 16
MaxTextureUnits == 2      \* _caps.maxTexturesImageUnits of the modelled device
MaxTextures == 2          \* IGLTexture objects the device hands out
Textures == 1..MaxTextures
\* OpenGL enumerants: keys of _activeTexturesCache next to the channel indices
TEXTURE_2D == 3553
TEXTURE_CUBE_MAP == 34067
TEXTURE0 == 33984
TextureTargets == {TEXTURE_2D, TEXTURE_CUBE_MAP}
\* (*_gl)["TEXTURE" + std::to_string(channel)]
TextureUnit(channel) == TEXTURE0 + channel
\* the value of a pointer or enum member the constructor never wrote
Indeterminate == -1

RECURSIVE resetTextureCacheLoop(_, _)
resetTextureCacheLoop(cache, index) ==
  IF index >= _maxTextureChannels THEN cache
  ELSE resetTextureCacheLoop(Put(cache, index, NULL), index + 1)

resetTextureCache(w) ==
  [w EXCEPT !.engine._activeTexturesCache = resetTextureCacheLoop(@, 0)]

wipeCaches(w) ==
  [resetTextureCache(w) EXCEPT !.engine._currentEffect = NULL,
                               !.engine._cachedVertexBuffers = NULL,
                               !.engine._cachedIndexBuffer = NULL,
                               !.engine._cachedEffectForVertexBuffers = NULL]

activateTexture(w, texture) ==
  IF w.engine._activeTexture # texture
  THEN [GlCall(w, <<"activeTexture", texture>>)
          EXCEPT !.gl.activeTexture = texture, !.engine._activeTexture = texture]
  ELSE w

\* _activeTexturesCache[_activeTexture] inserts a null entry when the key is absent
_bindTextureDirectly(w, target, texture) ==
  IF target \in DOMAIN w.engine._activeTexturesCache
  THEN LET unit == w.engine._activeTexture
           cache == IF unit \in DOMAIN w.engine._activeTexturesCache
                    THEN w.engine._activeTexturesCache
                    ELSE Put(w.engine._activeTexturesCache, unit, NULL)
       IN IF cache[unit] # texture
          THEN [GlCall(w, <<"bindTexture", target, texture>>)
                  EXCEPT !.gl.boundTexture = Put(@, <<w.gl.activeTexture, target>>, texture),
                         !.engine._activeTexturesCache = Put(cache, unit, texture)]
          ELSE [w EXCEPT !.engine._activeTexturesCache = cache]
  ELSE w

_bindTexture(w, channel, texture) ==
  IF channel < 0 THEN w
  ELSE _bindTextureDirectly(activateTexture(w, TextureUnit(channel)), TEXTURE_2D, texture)

RECURSIVE unbindAllTexturesLoop(_, _)
unbindAllTexturesLoop(w, channel) ==
  IF channel >= MaxTextureUnits THEN w
  ELSE LET w1 == activateTexture(w, TextureUnit(channel))
           w2 == _bindTextureDirectly(w1, TEXTURE_2D, NULL)
       IN unbindAllTexturesLoop(_bindTextureDirectly(w2, TEXTURE_CUBE_MAP, NULL), channel + 1)

unbindAllTextures(w) == unbindAllTexturesLoop(w, 0)

(***************************************************************************)
(* Framebuffers, render targets and the viewport.                          *)
(***************************************************************************)
Viewports == {1, 2}       \* the Viewport objects of the cameras

\* _gl->createTexture(): the device hands out the next unused handle
FreshTexture(w) == CHOOSE t \in Textures :
  /\ ~w.textures[t].created
  /\ \A u \in Textures : ~w.textures[u].created => t <= u

glCreateTexture(w) ==
  [GlCall(w, <<"createTexture", FreshTexture(w)>>)
     EXCEPT !.textures[FreshTexture(w)] =
              [created |-> TRUE, _framebuffer |-> NULL, generateMipMaps |-> FALSE,
               isCube |-> FALSE, isReady |-> FALSE, references |-> 0]]

bindUnboundFramebuffer(w, framebuffer) ==
  IF w.engine._currentFramebuffer # framebuffer
  THEN [GlCall(w, <<"bindFramebuffer", framebuffer>>)
          EXCEPT !.gl.framebuffer = framebuffer, !.engine._currentFramebuffer = framebuffer]
  ELSE w

\* _gl->viewport(...): the rectangle is named by where it was computed from
glViewport(w, from, id, required) ==
  [GlCall(w, <<"viewport", from, id, required>>)
     EXCEPT !.gl.viewport = [from |-> from, id |-> id, required |-> required]]

\* required: whether requiredWidth / requiredHeight replace the canvas size
setViewport(w, viewport, required) ==
  glViewport([w EXCEPT !.engine._cachedViewport = viewport], "viewport", viewport, required)

\* returns *currentViewport, the reference to the viewport cached before the call
setDirectViewport(w) ==
  LET currentViewport == w.engine._cachedViewport
      w1 == [w EXCEPT !.engine._cachedViewport = NULL]
  IN [glViewport(w1, "direct", NULL, FALSE) EXCEPT !.ret = currentViewport]

bindFramebuffer(w, texture, required) ==
  LET w1 == [w EXCEPT !.engine._currentRenderTarget = texture]
      w2 == bindUnboundFramebuffer(w1, w.textures[texture]._framebuffer)
      w3 == IF w.textures[texture].isCube
            THEN GlCall(w2, <<"framebufferTexture2D", texture>>)
            ELSE w2
  IN wipeCaches(glViewport(w3, "target", texture, required))

unBindFramebuffer(w, texture, disableGenerateMipMaps) ==
  LET w1 == [w EXCEPT !.engine._currentRenderTarget = NULL]
      w2 == IF w.textures[texture].generateMipMaps /\ ~disableGenerateMipMaps
            THEN _bindTextureDirectly(
                   GlCall(_bindTextureDirectly(w1, TEXTURE_2D, texture),
                          <<"generateMipmap", TEXTURE_2D>>),
                   TEXTURE_2D, NULL)
            ELSE w1
  IN bindUnboundFramebuffer(w2, NULL)

\* setViewport(*_cachedViewport) reads through the cached pointer; when it is
\* null or was never written the read is undefined: the process ends, or the
\* device gets a rectangle made of whatever was read
restoreDefaultFramebuffer(w, ub) ==
  LET w1 == [w EXCEPT !.engine._currentRenderTarget = NULL]
      w2 == bindUnboundFramebuffer(w1, NULL)
  IN IF w2.engine._cachedViewport \in Viewports
     THEN wipeCaches(setViewport(w2, w2.engine._cachedViewport, FALSE))
     ELSE IF ub = "crash" THEN [w2 EXCEPT !.crashed = TRUE]
     ELSE wipeCaches(glViewport(w2, "indeterminate", NULL, FALSE))

\* createRenderTargetTexture; the framebuffer the device creates for texture t
\* has the handle t
createRenderTargetTexture(w, generateMipMaps) ==
  LET texture == FreshTexture(w)
      w1 == _bindTextureDirectly(glCreateTexture(w), TEXTURE_2D, texture)
      w2 == GlCall(w1, <<"createFramebuffer", texture>>)
      w3 == GlCall(bindUnboundFramebuffer(w2, texture), <<"framebufferTexture2D", texture>>)
      w4 == IF generateMipMaps THEN GlCall(w3, <<"generateMipmap", TEXTURE_2D>>) ELSE w3
      w5 == bindUnboundFramebuffer(_bindTextureDirectly(w4, TEXTURE_2D, NULL), NULL)
      w6 == [w5 EXCEPT !.textures[texture] =
                          [created |-> TRUE, _framebuffer |-> texture,
                           generateMipMaps |-> generateMipMaps, isCube |-> FALSE,
                           isReady |-> TRUE, references |-> 1]]
  IN [resetTextureCache(w6) EXCEPT !.engine._loadedTexturesCache = Append(@, texture),
                                   !.ret = texture]

createRenderTargetCubeTexture(w, generateMipMaps) ==
  LET texture == FreshTexture(w)
      w1 == _bindTextureDirectly(glCreateTexture(w), TEXTURE_CUBE_MAP, texture)
      w2 == GlCall(w1, <<"createFramebuffer", texture>>)
      w3 == bindUnboundFramebuffer(w2, texture)
      w4 == IF generateMipMaps
            THEN GlCall(_bindTextureDirectly(w3, TEXTURE_CUBE_MAP, texture),
                        <<"generateMipmap", TEXTURE_CUBE_MAP>>)
            ELSE w3
      w5 == bindUnboundFramebuffer(_bindTextureDirectly(w4, TEXTURE_CUBE_MAP, NULL), NULL)
      w6 == [w5 EXCEPT !.textures[texture] =
                          [created |-> TRUE, _framebuffer |-> texture,
                           generateMipMaps |-> generateMipMaps, isCube |-> TRUE,
                           isReady |-> TRUE, references |-> 1]]
  IN [resetTextureCache(w6) EXCEPT !.engine._loadedTexturesCache = Append(@, texture),
                                   !.ret = texture]

(***************************************************************************)
(* The state after Engine::Engine.  The member-initializer list sets       *)
(* _currentProgram, _cachedVertexBuffers, _cachedIndexBuffer,              *)
(* _cachedEffectForVertexBuffers and _currentRenderTarget to nullptr and   *)
(* leaves _currentFramebuffer, _activeTexture, _cachedViewport and         *)
(* _currentEffect unwritten; the containers are default-constructed.       *)
(***************************************************************************)
EngineConstructed ==
  /\ \E fb \in {NULL, Indeterminate} :
     \E unit \in {Indeterminate} \cup {TextureUnit(c) : c \in 0..(MaxTextureUnits - 1)} :
       engine = [_currentBoundBuffer |-> EmptyMap,
                 _currentBufferPointers |-> EmptyMap,
                 _vertexAttribArraysEnabled |-> <<>>,
                 _cachedVertexBuffers |-> NULL,
                 _cachedIndexBuffer |-> NULL,
                 _cachedEffectForVertexBuffers |-> NULL,
                 _cachedVertexBuffersMap |-> EmptyMap,
                 _currentInstanceLocations |-> <<>>,
                 _currentInstanceBuffers |-> <<>>,
                 _currentProgram |-> NULL,
                 _currentEffect |-> Indeterminate,
                 _activeTexturesCache |-> EmptyMap,
                 _activeTexture |-> unit,
                 _currentFramebuffer |-> fb,
                 _currentRenderTarget |-> NULL,
                 _cachedViewport |-> Indeterminate,
                 _loadedTexturesCache |-> <<>>,
                 _compiledEffects |-> EmptyMap,
                 _activeRenderLoops |-> <<>>,
                 _renderingQueueLaunched |-> FALSE,
                 previousFramesDuration |-> <<>>,
                 fps |-> <<60, 1>>,
                 deltaTime |-> 0]
  /\ gl = [boundBuffer |-> [t \in BufferTargets |-> NULL],
           attribEnabled |-> [l \in Locations |-> FALSE],
           activeTexture |-> TEXTURE0,
           boundTexture |-> EmptyMap,
           framebuffer |-> NULL,
           viewport |-> [from |-> "canvas", id |-> NULL, required |-> FALSE],
           calls |-> <<>>]
  /\ buffers = [b \in Buffers |-> [created |-> FALSE, references |-> 0, deleted |-> 0]]
  /\ textures = [t \in Textures |->
                   [created |-> FALSE, _framebuffer |-> NULL, generateMipMaps |-> FALSE,
                    isCube |-> FALSE, isReady |-> FALSE, references |-> 0]]
  /\ crashed = FALSE
  /\ lastOp = [op |-> "Engine", args |-> <<>>, ret |-> NULL, thrown |-> FALSE]
  /\ bindRun = <<>>
  /\ lastViewport = NULL

\* the collaborators of a fresh engine: the clock at zero, no frame begun, an
\* empty scene, no load requested, no program on the device, a device that
\* names no extension in its GL_EXTENSIONS string, a skeleton
\* without a pose matrix (the empty sequence stands for the null Matrix*) that
\* nothing has marked dirty or posed
EnvInit ==
  [now |-> 0, frames |-> 0, pending |-> <<>>, removed |-> <<>>, loads |-> {},
   programs |-> <<>>, poseMatrix |-> <<>>, _isDirty |-> FALSE, boneOps |-> 0,
   extensions |-> {}, accesses |-> <<>>]

\* the engine alone: no skeleton has been built
EngineInit == EngineConstructed /\ env = EnvInit /\ bones = <<>> /\ sps = <<>>
              /\ ray = <<>>

\* the world  w  becomes the state: the operation  op(args)  has returned
Commit(w, op, args) ==
  /\ engine' = w.engine
  /\ gl' = w.gl
  /\ buffers' = w.buffers
  /\ textures' = w.textures
  /\ crashed' = w.crashed
  /\ lastOp' = [op |-> op, args |-> args, ret |-> w.ret, thrown |-> w.thrown]
  /\ env' = w.env
  /\ UNCHANGED <<bones, sps, ray>>

CreatedBuffers == {b \in Buffers : buffers[b].created}
CreatedTextures == {t \in Textures : textures[t].created}
CanCreateBuffer == \E b \in Buffers : ~buffers[b].created
CanCreateTexture == \E t \in Textures : ~textures[t].created
\* the references field of a new IGLBuffer, which the constructor (outside the
\* engine) sets; the engine overwrites it except in createInstancesBuffer
NewBufferReferences == {0, 1}

(***************************************************************************)
(* Actions: one per public operation of the engine.                        *)
(***************************************************************************)
BindArrayBuffer ==
  /\ ~crashed
  /\ \E buffer \in CreatedBuffers \cup {NULL} :
       LET w == bindArrayBuffer(World, buffer)
           hit == /\ ARRAY_BUFFER \in DOMAIN engine._currentBoundBuffer
                  /\ engine._currentBoundBuffer[ARRAY_BUFFER] = buffer
           entry == [buffer |-> buffer, hit |-> hit,
                     calls |-> CountCalls(w.gl.calls, "bindBuffer")]
       IN /\ Commit(w, "bindArrayBuffer", <<buffer>>)
          /\ bindRun' = IF Len(bindRun) < MaxRun THEN Append(bindRun, entry)
                        ELSE Append(Tail(bindRun), entry)
  /\ UNCHANGED lastViewport

BindIndexBuffer ==
  /\ ~crashed
  /\ \E buffer \in CreatedBuffers \cup {NULL} :
       Commit(bindIndexBuffer(World, buffer), "bindIndexBuffer", <<buffer>>)
  /\ bindRun' = <<>>
  /\ UNCHANGED lastViewport

CreateVertexBuffer ==
  /\ ~crashed /\ CanCreateBuffer
  /\ \E r0 \in NewBufferReferences :
       Commit(createVertexBuffer(World, r0, "STATIC_DRAW"), "createVertexBuffer", <<>>)
  /\ bindRun' = <<>>
  /\ UNCHANGED lastViewport

CreateDynamicVertexBuffer ==
  /\ ~crashed /\ CanCreateBuffer
  /\ \E r0 \in NewBufferReferences :
       Commit(createVertexBuffer(World, r0, "DYNAMIC_DRAW"), "createDynamicVertexBuffer", <<>>)
  /\ bindRun' = <<>>
  /\ UNCHANGED lastViewport

UpdateDynamicVertexBuffer ==
  /\ ~crashed
  /\ \E vertexBuffer \in CreatedBuffers :
       Commit(updateDynamicVertexBuffer(World, vertexBuffer), "updateDynamicVertexBuffer",
              <<vertexBuffer>>)
  /\ bindRun' = <<>>
  /\ UNCHANGED lastViewport

CreateIndexBuffer ==
  /\ ~crashed /\ CanCreateBuffer
  /\ \E r0 \in NewBufferReferences :
       Commit(createIndexBuffer(World, r0), "createIndexBuffer", <<>>)
  /\ bindRun' = <<>>
  /\ UNCHANGED lastViewport

CreateInstancesBuffer ==
  /\ ~crashed /\ CanCreateBuffer
  /\ \E r0 \in NewBufferReferences :
       Commit(createInstancesBuffer(World, r0), "createInstancesBuffer", <<r0>>)
  /\ bindRun' = <<>>
  /\ UNCHANGED lastViewport

DeleteInstancesBuffer ==
  /\ ~crashed
  /\ \E buffer \in CreatedBuffers :
       /\ buffers[buffer].deleted < MaxDeletes
       /\ Commit(deleteInstancesBuffer(World, buffer), "deleteInstancesBuffer", <<buffer>>)
  /\ bindRun' = <<>>
  /\ UNCHANGED lastViewport

\* another owner takes a share of the buffer: ++buffer->references
RetainBuffer ==
  /\ ~crashed
  /\ \E buffer \in CreatedBuffers :
       /\ buffers[buffer].references >= 1
       /\ buffers[buffer].references < MaxRefs
       /\ Commit([World EXCEPT !.buffers[buffer].references = @ + 1], "retain", <<buffer>>)
  /\ bindRun' = <<>>
  /\ UNCHANGED lastViewport

ReleaseBuffer ==
  /\ ~crashed
  /\ \E buffer \in CreatedBuffers :
       /\ buffers[buffer].references >= 0
       /\ buffers[buffer].deleted < MaxDeletes
       /\ Commit(_releaseBuffer(World, buffer), "_releaseBuffer",
                 <<buffer, buffers[buffer].references>>)
  /\ bindRun' = <<>>
  /\ UNCHANGED lastViewport

UpdateAndBindInstancesBufferOffsets ==
  /\ ~crashed
  /\ \E instancesBuffer \in CreatedBuffers, ub \in UBOutcomes :
       /\ engine._currentInstanceLocations = <<>>
       /\ Commit(updateAndBindInstancesBufferOffsets(World, instancesBuffer, <<0, 1, 2, 3>>, ub),
                 "updateAndBindInstancesBuffer", <<instancesBuffer, <<0, 1, 2, 3>>>>)
  /\ bindRun' = <<>>
  /\ UNCHANGED lastViewport

UpdateAndBindInstancesBufferInfos ==
  /\ ~crashed
  /\ \E instancesBuffer \in CreatedBuffers, infos \in InstancingInfoLists, ub \in UBOutcomes :
       /\ infos # <<>> => engine._currentInstanceLocations = <<>>
       /\ Commit(updateAndBindInstancesBufferInfos(World, instancesBuffer, infos, ub),
                 "updateAndBindInstancesBuffer", <<instancesBuffer, infos>>)
  /\ bindRun' = <<>>
  /\ UNCHANGED lastViewport

VertexAttribPointer ==
  /\ ~crashed
  /\ \E buffer \in CreatedBuffers, size \in {3, 4} :
       Commit(vertexAttribPointer(World, buffer, 0, size, "FLOAT", FALSE, size * 4, 0),
              "vertexAttribPointer", <<buffer, 0, size, "FLOAT", FALSE, size * 4, 0>>)
  /\ bindRun' = <<>>
  /\ UNCHANGED lastViewport

BindBuffers ==
  /\ ~crashed
  /\ \E vertexBuffers \in VertexBufferMaps, indexBuffer \in CreatedBuffers \cup {NULL},
        effect \in Effects, ub \in UBOutcomes :
       /\ \A n \in DOMAIN vertexBuffers :
            vertexBuffers[n] # NULL =>
              VertexBufferObject(vertexBuffers[n]).buffer \in CreatedBuffers
       /\ (\E n \in DOMAIN vertexBuffers :
             vertexBuffers[n] # NULL /\ VertexBufferObject(vertexBuffers[n]).isInstanced)
            => engine._currentInstanceLocations = <<>>
       /\ Commit(bindBuffers(World, vertexBuffers, indexBuffer, effect, ub), "bindBuffers",
                 <<vertexBuffers, indexBuffer, effect,
                   \/ engine._cachedVertexBuffersMap # vertexBuffers
                   \/ engine._cachedEffectForVertexBuffers # effect>>)
  /\ bindRun' = <<>>
  /\ UNCHANGED lastViewport

UnbindInstanceAttributes ==
  /\ ~crashed
  /\ \E ub \in UBOutcomes :
       Commit(unbindInstanceAttributes(World, ub), "unbindInstanceAttributes", <<>>)
  /\ bindRun' = <<>>
  /\ UNCHANGED lastViewport

UnbindAllAttributes ==
  /\ ~crashed
  /\ Commit(unbindAllAttributes(World), "unbindAllAttributes", <<>>)
  /\ bindRun' = <<>>
  /\ UNCHANGED lastViewport

WipeCaches ==
  /\ ~crashed
  /\ Commit(wipeCaches(World), "wipeCaches", <<>>)
  /\ bindRun' = <<>>
  /\ UNCHANGED lastViewport

BindTexture ==
  /\ ~crashed
  /\ \E channel \in (-1)..(MaxTextureUnits - 1), texture \in CreatedTextures \cup {NULL} :
       Commit(_bindTexture(World, channel, texture), "_bindTexture",
              <<channel, texture,
                IF TextureUnit(channel) \in DOMAIN engine._activeTexturesCache
                THEN engine._activeTexturesCache[TextureUnit(channel)] ELSE NULL>>)
  /\ bindRun' = <<>>
  /\ UNCHANGED lastViewport

BindTextureDirectly ==
  /\ ~crashed
  /\ \E target \in TextureTargets, texture \in CreatedTextures \cup {NULL} :
       Commit(_bindTextureDirectly(World, target, texture), "_bindTextureDirectly",
              <<target, texture,
                IF engine._activeTexture \in DOMAIN engine._activeTexturesCache
                THEN engine._activeTexturesCache[engine._activeTexture] ELSE NULL>>)
  /\ bindRun' = <<>>
  /\ UNCHANGED lastViewport

UnbindAllTextures ==
  /\ ~crashed
  /\ Commit(unbindAllTextures(World), "unbindAllTextures", <<>>)
  /\ bindRun' = <<>>
  /\ UNCHANGED lastViewport

CreateRenderTargetTexture ==
  /\ ~crashed /\ CanCreateTexture
  /\ \E generateMipMaps \in BOOLEAN :
       Commit(createRenderTargetTexture(World, generateMipMaps), "createRenderTargetTexture",
              <<generateMipMaps>>)
  /\ bindRun' = <<>>
  /\ UNCHANGED lastViewport

CreateRenderTargetCubeTexture ==
  /\ ~crashed /\ CanCreateTexture
  /\ \E generateMipMaps \in BOOLEAN :
       Commit(createRenderTargetCubeTexture(World, generateMipMaps),
              "createRenderTargetCubeTexture", <<generateMipMaps>>)
  /\ bindRun' = <<>>
  /\ UNCHANGED lastViewport

SetViewport ==
  /\ ~crashed
  /\ \E viewport \in Viewports, required \in BOOLEAN :
       /\ Commit(setViewport(World, viewport, required), "setViewport", <<viewport, required>>)
       /\ lastViewport' = viewport
  /\ bindRun' = <<>>

SetDirectViewport ==
  /\ ~crashed
  /\ Commit(setDirectViewport(World), "setDirectViewport", <<>>)
  /\ bindRun' = <<>>
  /\ UNCHANGED lastViewport

BindFramebuffer ==
  /\ ~crashed
  /\ \E texture \in CreatedTextures, required \in BOOLEAN :
       Commit(bindFramebuffer(World, texture, required), "bindFramebuffer",
              <<texture, required>>)
  /\ bindRun' = <<>>
  /\ UNCHANGED lastViewport

UnBindFramebuffer ==
  /\ ~crashed
  /\ \E texture \in CreatedTextures, disableGenerateMipMaps \in BOOLEAN :
       Commit(unBindFramebuffer(World, texture, disableGenerateMipMaps), "unBindFramebuffer",
              <<texture, disableGenerateMipMaps>>)
  /\ bindRun' = <<>>
  /\ UNCHANGED lastViewport

RestoreDefaultFramebuffer ==
  /\ ~crashed
  /\ \E ub \in UBOutcomes :
       Commit(restoreDefaultFramebuffer(World, ub), "restoreDefaultFramebuffer", <<>>)
  /\ bindRun' = <<>>
  /\ UNCHANGED lastViewport

(***************************************************************************)
(* Specifications.  Each one lets the client use one group of operations   *)
(* of the engine, from the state the constructor leaves.  A group that     *)
(* never reads the framebuffer or texture-unit members starts from one     *)
(* value of those unwritten members.                                       *)
(***************************************************************************)
InitNoTextures ==
  /\ EngineInit
  /\ engine._currentFramebuffer = NULL
  /\ engine._activeTexture = Indeterminate

\* client calls of the bind operations themselves
NextBind ==
  \/ BindArrayBuffer
  \/ BindIndexBuffer
  \/ CreateVertexBuffer
  \/ CreateIndexBuffer
  \/ UpdateDynamicVertexBuffer
  \/ WipeCaches

SpecBind == InitNoTextures /\ [][NextBind]_vars

\* the operations that bind buffers on the way; bindBuffers, which binds
\* through vertexAttribPointer and bindIndexBuffer, runs in NextAttributes
NextBuffers ==
  \/ CreateVertexBuffer
  \/ CreateDynamicVertexBuffer
  \/ UpdateDynamicVertexBuffer
  \/ CreateIndexBuffer
  \/ CreateInstancesBuffer
  \/ UpdateAndBindInstancesBufferOffsets
  \/ UpdateAndBindInstancesBufferInfos
  \/ VertexAttribPointer
  \/ UnbindInstanceAttributes
  \/ WipeCaches

SpecBuffers == InitNoTextures /\ [][NextBuffers]_vars

\* the vertex attribute slots
NextAttributes ==
  \/ CreateVertexBuffer
  \/ BindBuffers
  \/ UnbindAllAttributes
  \/ WipeCaches

SpecAttributes == InitNoTextures /\ [][NextAttributes]_vars

\* the reference counts of the buffers
NextReferences ==
  \/ CreateVertexBuffer
  \/ CreateDynamicVertexBuffer
  \/ CreateIndexBuffer
  \/ CreateInstancesBuffer
  \/ DeleteInstancesBuffer
  \/ RetainBuffer
  \/ ReleaseBuffer

SpecReferences == InitNoTextures /\ [][NextReferences]_vars

\* the texture units
NextTextures ==
  \/ BindTexture
  \/ BindTextureDirectly
  \/ UnbindAllTextures
  \/ CreateRenderTargetTexture
  \/ CreateRenderTargetCubeTexture
  \/ WipeCaches

SpecTextures == EngineInit /\ [][NextTextures]_vars

\* render targets and the viewport
NextFramebuffer ==
  \/ CreateRenderTargetTexture
  \/ CreateRenderTargetCubeTexture
  \/ SetViewport
  \/ SetDirectViewport
  \/ BindFramebuffer
  \/ UnBindFramebuffer
  \/ RestoreDefaultFramebuffer

SpecFramebuffer == EngineInit /\ [][NextFramebuffer]_vars

(***************************************************************************)
(* Properties of the bound-buffer cache.                                   *)
(***************************************************************************)
\* the buffer the cache holds for a target; an absent entry reads as null
\* (operator[] of the map inserts nullptr)
CachedBuffer(target) ==
  IF target \in DOMAIN engine._currentBoundBuffer
  THEN engine._currentBoundBuffer[target] ELSE NULL

\* C1: after any sequence of buffer operations the cached bound buffer of each
\* target equals the buffer bound to that target on the device
C1_CacheEqualsDevice ==
  ~crashed => \A target \in BufferTargets : CachedBuffer(target) = gl.boundBuffer[target]

\* C2: starting with a buffer X that is not the cached one, bindArrayBuffer(X)
\* twice in a row issues exactly one device bindBuffer, and
\* bindArrayBuffer(X), bindArrayBuffer(Y), bindArrayBuffer(X) with Y # X issues
\* exactly three
C2_BindTwiceOnce ==
  /\ \A i \in 1..(Len(bindRun) - 1) :
       (/\ bindRun[i].buffer \in Buffers
        /\ ~bindRun[i].hit
        /\ bindRun[i + 1].buffer = bindRun[i].buffer)
         => bindRun[i].calls + bindRun[i + 1].calls = 1
  /\ \A i \in 1..(Len(bindRun) - 2) :
       (/\ bindRun[i].buffer \in Buffers
        /\ ~bindRun[i].hit
        /\ bindRun[i + 1].buffer # bindRun[i].buffer
        /\ bindRun[i + 2].buffer = bindRun[i].buffer)
         => bindRun[i].calls + bindRun[i + 1].calls + bindRun[i + 2].calls = 3

\* the run X, Y, X with two distinct buffers has been made, and its first
\* request was not served by the cache
C2_Witness ==
  /\ Len(bindRun) = 3
  /\ bindRun[1].buffer \in Buffers
  /\ ~bindRun[1].hit
  /\ bindRun[2].buffer \in Buffers \ {bindRun[1].buffer}
  /\ bindRun[3].buffer = bindRun[1].buffer

\* C3: after wipeCaches the next bindArrayBuffer(X) issues the device bind,
\* also when X is the buffer that was cached before the wipe
C3_WipeInvalidates ==
  [][(/\ lastOp.op = "wipeCaches"
      /\ lastOp'.op = "bindArrayBuffer"
      /\ lastOp'.args[1] \in Buffers)
       => CountCalls(gl'.calls, "bindBuffer") = 1]_vars

(***************************************************************************)
(* Properties of the reference counts.                                     *)
(***************************************************************************)
\* the device deleteBuffer calls the last operation issued for  buffer
DeletesOf(buffer) ==
  Len(SelectSeq(gl.calls, LAMBDA c : c = <<"deleteBuffer", buffer>>))

\* C4: _releaseBuffer on a buffer with count n >= 1 leaves n - 1; it deletes
\* the device buffer and returns true exactly when n = 1; for n >= 2 it
\* returns false and deletes nothing
C4_ReleaseBuffer ==
  (lastOp.op = "_releaseBuffer" /\ lastOp.args[2] >= 1) =>
    LET buffer == lastOp.args[1]
        n == lastOp.args[2]
    IN /\ buffers[buffer].references = n - 1
       /\ lastOp.ret = (n = 1)
       /\ DeletesOf(buffer) = (IF n = 1 THEN 1 ELSE 0)
       /\ CountCalls(gl.calls, "deleteBuffer") = DeletesOf(buffer)

C4_Witness ==
  /\ lastOp.op = "_releaseBuffer"
  /\ lastOp.args[2] = 2
  /\ lastOp.ret = FALSE
  /\ buffers[lastOp.args[1]].references = 1
  /\ buffers[lastOp.args[1]].deleted = 0

\* C5: a device deletion of a buffer is issued only by an operation that has
\* just brought its reference count to zero, and no buffer is deleted twice
C5_DeleteOnlyAtZero ==
  \A buffer \in Buffers :
    /\ DeletesOf(buffer) > 0 => buffers[buffer].references = 0
    /\ buffers[buffer].deleted <= 1

\* C6: every buffer-creating operation returns a handle whose reference count
\* is 1 and leaves the target it used unbound in the cache and on the device
C6_CreateReturnsOneUnbound ==
  lastOp.op \in {"createVertexBuffer", "createDynamicVertexBuffer", "createIndexBuffer",
                 "createInstancesBuffer"} =>
    LET target == IF lastOp.op = "createIndexBuffer" THEN ELEMENT_ARRAY_BUFFER
                  ELSE ARRAY_BUFFER
    IN /\ buffers[lastOp.ret].references = 1
       /\ CachedBuffer(target) = NULL
       /\ gl.boundBuffer[target] = NULL

(***************************************************************************)
(* Properties of the texture units, the framebuffer and the viewport.      *)
(***************************************************************************)
\* C7: _bindTextureDirectly(target, T) and _bindTexture(channel, T) issue the
\* device bindTexture and record T as the cached texture of the active unit
\* whenever the cached texture of that unit differs from T, and issue no
\* device call when it equals T
C7_BindTextureCached ==
  (\/ lastOp.op = "_bindTextureDirectly"
   \/ lastOp.op = "_bindTexture" /\ lastOp.args[1] >= 0) =>
    LET texture == lastOp.args[2]
        before == lastOp.args[3]
        unit == engine._activeTexture
    IN IF before # texture
       THEN /\ CountCalls(gl.calls, "bindTexture") = 1
            /\ unit \in DOMAIN engine._activeTexturesCache
            /\ engine._activeTexturesCache[unit] = texture
       ELSE CountCalls(gl.calls, "bindTexture") = 0

\* the framebuffer the operation  op  hands to bindUnboundFramebuffer
RequestedFramebuffer(op) ==
  IF op.op = "bindFramebuffer" THEN textures[op.args[1]]._framebuffer ELSE NULL

\* C8: the cached framebuffer is null when the engine has been constructed;
\* bindUnboundFramebuffer(fb), reached from bindFramebuffer, unBindFramebuffer
\* and restoreDefaultFramebuffer, issues the device bindFramebuffer exactly
\* when fb differs from the cached framebuffer and leaves the cache equal to fb
C8_FramebufferCache ==
  /\ [](lastOp.op = "Engine" => engine._currentFramebuffer = NULL)
  /\ [][lastOp'.op \in {"bindFramebuffer", "unBindFramebuffer", "restoreDefaultFramebuffer"} =>
          /\ CountCalls(gl'.calls, "bindFramebuffer") =
               (IF engine._currentFramebuffer # RequestedFramebuffer(lastOp') THEN 1 ELSE 0)
          /\ engine'._currentFramebuffer = RequestedFramebuffer(lastOp')]_vars

\* the state wipeCaches leaves
Wiped ==
  /\ \A index \in 0..(_maxTextureChannels - 1) :
       /\ index \in DOMAIN engine._activeTexturesCache
       /\ engine._activeTexturesCache[index] = NULL
  /\ engine._currentEffect = NULL
  /\ engine._cachedVertexBuffers = NULL
  /\ engine._cachedIndexBuffer = NULL
  /\ engine._cachedEffectForVertexBuffers = NULL

\* C9: unBindFramebuffer and restoreDefaultFramebuffer, called after at least
\* one setViewport, leave the default framebuffer bound, re-apply the viewport
\* of the most recent setViewport call and perform wipeCaches
C9_UnbindRestores ==
  (/\ lastOp.op \in {"unBindFramebuffer", "restoreDefaultFramebuffer"}
   /\ lastViewport # NULL) =>
    /\ ~crashed
    /\ gl.framebuffer = NULL
    /\ gl.viewport.from = "viewport"
    /\ gl.viewport.id = lastViewport
    /\ Wiped

(***************************************************************************)
(* Properties of the vertex attribute slots.                               *)
(***************************************************************************)
\* slot  location  is recorded as enabled in _vertexAttribArraysEnabled
RecordedEnabled(location) ==
  /\ location + 1 <= Len(engine._vertexAttribArraysEnabled)
  /\ engine._vertexAttribArraysEnabled[location + 1]

\* C10: after a bindBuffers call that detects a change of the vertex-buffer map
\* or of the effect, every declared location >= 0 whose vertex buffer is
\* non-null is enabled on the device and recorded as enabled, and every
\* declared location whose vertex buffer is null is disabled and recorded as
\* disabled, whatever happened before
C10_BindBuffersEnables ==
  (/\ lastOp.op = "bindBuffers"
   /\ lastOp.args[4]
   /\ ~lastOp.thrown
   /\ ~crashed) =>
    LET vertexBuffers == lastOp.args[1]
        effect == lastOp.args[3]
    IN \A index \in 1..Len(getAttributesNames(effect)) :
         LET order == getAttributeLocation(effect, index)
             name == getAttributesNames(effect)[index]
         IN order >= 0 =>
              IF vertexBuffers[name] # NULL
              THEN gl.attribEnabled[order] /\ RecordedEnabled(order)
              ELSE ~gl.attribEnabled[order] /\ ~RecordedEnabled(order)

(***************************************************************************)
(* Numbers.  A float is the exact rational <<n, d>> in lowest terms; a     *)
(* division by zero gives <<1, 0>> or <<-1, 0>> (infinity) or <<0, 0>>     *)
(* (not a number), as IEEE arithmetic does.  The model feeds the program   *)
(* values on which its float arithmetic is exact or whose rounding is far  *)
(* below the tolerances of the properties.  An operand that an operator    *)
(* reads more than once is bound over a singleton set, so that it is       *)
(* evaluated once.                                                         *)
(***************************************************************************)
Abs(x) == IF x < 0 THEN -x ELSE x

Sign(x) == IF x < 0 THEN -1 ELSE IF x > 0 THEN 1 ELSE 0

RECURSIVE Gcd(_, _)
Gcd(a, b) ==
  CHOOSE g \in {IF y = 0 THEN x ELSE Gcd(y, x % y) : x \in {a}, y \in {b}} : TRUE

\* the rational n / d
Rat(n, d) ==
  CHOOSE r \in
    {IF q = 0 THEN <<Sign(p), 0>>
     ELSE CHOOSE t \in {<<(Sign(q) * p) \div g, Abs(q) \div g>> :
                          g \in {Gcd(Abs(p), Abs(q))}} : TRUE : p \in {n}, q \in {d}} : TRUE

\* two integers need no reduction
RAdd(a, b) ==
  CHOOSE r \in
    {IF x[2] = 1 /\ y[2] = 1 THEN <<x[1] + y[1], 1>>
     ELSE Rat(x[1] * y[2] + y[1] * x[2], x[2] * y[2]) : x \in {a}, y \in {b}} : TRUE

RSub(a, b) ==
  CHOOSE r \in
    {IF x[2] = 1 /\ y[2] = 1 THEN <<x[1] - y[1], 1>>
     ELSE Rat(x[1] * y[2] - y[1] * x[2], x[2] * y[2]) : x \in {a}, y \in {b}} : TRUE

RMul(a, b) ==
  CHOOSE r \in
    {IF x[2] = 1 /\ y[2] = 1 THEN <<x[1] * y[1], 1>>
     ELSE Rat(x[1] * y[1], x[2] * y[2]) : x \in {a}, y \in {b}} : TRUE

RDiv(a, b) ==
  CHOOSE r \in
    {IF y[2] = 0 THEN (IF y[1] = 0 THEN <<0, 0>> ELSE <<0, 1>>)
     ELSE Rat(x[1] * y[2], x[2] * y[1]) : x \in {a}, y \in {b}} : TRUE

(***************************************************************************)
(* Render loops.                                                           *)
(***************************************************************************)
MaxCallbacks == 3       \* distinct render functions of the client
\* the render functions, by identity
Callbacks == 1..MaxCallbacks

stopRenderLoop(w, renderFunction) ==
  IF renderFunction = NULL
  THEN [w EXCEPT !.engine._activeRenderLoops = <<>>]
  ELSE [w EXCEPT !.engine._activeRenderLoops =
                    SelectSeq(@, LAMBDA f : f # renderFunction)]

\* runRenderLoop with a plausible fault: the function is registered without
\* looking for it in the list
runRenderLoop_always(w, renderFunction) ==
  [w EXCEPT !.engine._activeRenderLoops = Append(@, renderFunction),
            !.engine._renderingQueueLaunched = TRUE]

runRenderLoop(w, renderFunction) ==
  IF \E i \in 1..Len(w.engine._activeRenderLoops) :
       w.engine._activeRenderLoops[i] = renderFunction
  THEN w
  ELSE [w EXCEPT !.engine._activeRenderLoops = Append(@, renderFunction),
                 !.engine._renderingQueueLaunched = TRUE]

(***************************************************************************)
(* Frames: the FPS window.  Time points are in microseconds.               *)
(***************************************************************************)
fpsRange == 3           \* samples of the window; 60 in Engine::Engine
MaxFrames == 7          \* frames of a run
\* the time between two frames, in microseconds
Deltas == {16666, 20000, 33333}

\* Time::highresTimepointNow()
highresTimepointNow(w) == w.env.now

\* the sum of the consecutive differences of the samples from index  id  on
\* (0-based), in milliseconds
RECURSIVE sumMillis(_, _, _)
sumMillis(samples, id, length) ==
  IF id >= length - 1 THEN <<0, 1>>
  ELSE RAdd(Rat(samples[id + 2] - samples[id + 1], 1000), sumMillis(samples, id + 1, length))

\* _measureFps with a plausible fault: the average is taken over  length
\* differences instead of  length - 1
_measureFps_length(w) ==
  LET pushed == Append(w.engine.previousFramesDuration, highresTimepointNow(w))
      length0 == Len(pushed)
      w1 == [w EXCEPT !.engine.previousFramesDuration = pushed,
                      !.engine.deltaTime =
                         IF length0 >= 2 THEN pushed[length0] - pushed[length0 - 1] ELSE @]
  IN IF length0 >= fpsRange
     THEN LET samples == IF length0 > fpsRange THEN Tail(pushed) ELSE pushed
              length == Len(samples)
          IN [w1 EXCEPT !.engine.previousFramesDuration = samples,
                        !.engine.fps =
                           RDiv(<<1000, 1>>,
                                RDiv(sumMillis(samples, 0, length), <<length, 1>>))]
     ELSE w1

\* _measureFps with a plausible fault: the oldest sample is evicted as soon as
\* the window is full
_measureFps_early(w) ==
  LET pushed == Append(w.engine.previousFramesDuration, highresTimepointNow(w))
      length0 == Len(pushed)
      w1 == [w EXCEPT !.engine.previousFramesDuration = pushed,
                      !.engine.deltaTime =
                         IF length0 >= 2 THEN pushed[length0] - pushed[length0 - 1] ELSE @]
  IN IF length0 >= fpsRange
     THEN LET samples == Tail(pushed)
              length == Len(samples)
          IN [w1 EXCEPT !.engine.previousFramesDuration = samples,
                        !.engine.fps =
                           RDiv(<<1000, 1>>,
                                RDiv(sumMillis(samples, 0, length), <<length - 1, 1>>))]
     ELSE w1

_measureFps(w) ==
  LET pushed == Append(w.engine.previousFramesDuration, highresTimepointNow(w))
      length0 == Len(pushed)
      w1 == [w EXCEPT !.engine.previousFramesDuration = pushed,
                      !.engine.deltaTime =
                         IF length0 >= 2 THEN pushed[length0] - pushed[length0 - 1] ELSE @]
  IN IF length0 >= fpsRange
     THEN LET samples == IF length0 > fpsRange THEN Tail(pushed) ELSE pushed
              length == Len(samples)
          IN [w1 EXCEPT !.engine.previousFramesDuration = samples,
                        !.engine.fps =
                           RDiv(<<1000, 1>>,
                                RDiv(sumMillis(samples, 0, length), <<length - 1, 1>>))]
     ELSE w1

beginFrame(w) == _measureFps(w)

(***************************************************************************)
(* Actions of the render loops and the frames.                             *)
(***************************************************************************)
RunRenderLoop ==
  /\ ~crashed
  /\ \E renderFunction \in Callbacks :
       Commit(runRenderLoop(World, renderFunction), "runRenderLoop",
              <<renderFunction, engine._activeRenderLoops>>)
  /\ bindRun' = <<>>
  /\ UNCHANGED lastViewport

StopRenderLoop ==
  /\ ~crashed
  /\ \E renderFunction \in Callbacks \cup {NULL} :
       Commit(stopRenderLoop(World, renderFunction), "stopRenderLoop",
              <<renderFunction, engine._activeRenderLoops>>)
  /\ bindRun' = <<>>
  /\ UNCHANGED lastViewport

\* the clock has advanced by  delta  since the last frame
BeginFrame ==
  /\ ~crashed
  /\ env.frames < MaxFrames
  /\ \E delta \in Deltas :
       Commit(beginFrame([World EXCEPT !.env.now = @ + delta, !.env.frames = @ + 1]),
              "beginFrame", <<>>)
  /\ bindRun' = <<>>
  /\ UNCHANGED lastViewport

\* the registration of render loops
NextRenderLoop ==
  \/ RunRenderLoop
  \/ StopRenderLoop

SpecRenderLoop == InitNoTextures /\ [][NextRenderLoop]_vars

\* the frames of a run
NextFrames ==
  \/ BeginFrame

SpecFrames == InitNoTextures /\ [][NextFrames]_vars

(***************************************************************************)
(* Properties of the render loops and the FPS window.                      *)
(***************************************************************************)
\* C11: the list of active render loops holds no callback twice;
\* runRenderLoop(f) leaves the list unchanged when f is registered and appends
\* f otherwise; stopRenderLoop(f) removes exactly f and keeps the order of the
\* others; stopRenderLoop() empties the list
C11_RenderLoops ==
  LET loops == engine._activeRenderLoops
      f == lastOp.args[1]
      before == lastOp.args[2]
  IN /\ \A i, j \in 1..Len(loops) : loops[i] = loops[j] => i = j
     /\ lastOp.op = "runRenderLoop" =>
          loops = (IF \E i \in 1..Len(before) : before[i] = f THEN before
                   ELSE Append(before, f))
     /\ (lastOp.op = "stopRenderLoop" /\ f # NULL) =>
          /\ \A i \in 1..Len(loops) : loops[i] # f
          /\ loops = SelectSeq(before, LAMBDA g : g # f)
          /\ Len(loops) >= Len(before) - 1
     /\ (lastOp.op = "stopRenderLoop" /\ f = NULL) => loops = <<>>

\* a registered callback has been removed from the middle of three
C11_Witness ==
  /\ lastOp.op = "stopRenderLoop"
  /\ Len(lastOp.args[2]) = 3
  /\ lastOp.args[1] = lastOp.args[2][2]
  /\ engine._activeRenderLoops = <<lastOp.args[2][1], lastOp.args[2][3]>>

Spaced(d) ==
  \A i \in 1..(Len(engine.previousFramesDuration) - 1) :
    engine.previousFramesDuration[i + 1] - engine.previousFramesDuration[i] = d

\* C13: once the window is full (n = fpsRange >= 2) fps is
\* 1000 * (n - 1) / (newest - oldest) with the time points in milliseconds; for
\* samples spaced d apart it is 1000 / d, within 1% of 60 for d = 16.666 ms;
\* deltaTime is the difference of the two most recent samples as soon as two
\* exist
C13_MovingAverage ==
  LET samples == engine.previousFramesDuration
      n == Len(samples)
  IN /\ (n = fpsRange /\ n >= 2) =>
          /\ engine.fps = Rat(1000 * 1000 * (n - 1), samples[n] - samples[1])
          /\ \A d \in Deltas : Spaced(d) => engine.fps = Rat(1000 * 1000, d)
          /\ Spaced(16666) =>
               /\ 100 * engine.fps[1] >= 99 * 60 * engine.fps[2]
               /\ 100 * engine.fps[1] <= 101 * 60 * engine.fps[2]
     /\ n >= 2 => engine.deltaTime = samples[n] - samples[n - 1]

\* the window is full after more than fpsRange frames 16.666 ms apart
C13_Witness ==
  /\ env.frames > fpsRange
  /\ Len(engine.previousFramesDuration) = fpsRange
  /\ fpsRange >= 2
  /\ Spaced(16666)
  /\ engine.fps = <<500000, 8333>>

(***************************************************************************)
(* Texture loading.  A URL is the sequence of its characters.  The scene   *)
(* and the image loader are collaborators of the engine:  env.pending  is  *)
(* the scene's list of pending data,  env.removed  the arguments of its    *)
(* _removePendingData calls so far and  env.loads  the load requests whose *)
(* callback has not been invoked yet.                                      *)
(***************************************************************************)
Urls ==
  { <<"a", ".", "p", "n", "g">>,
    <<"b", ".", "T", "G", "A">>,
    <<"c", ".", "d", "d", "s">>,
    <<"d", "a", "t", "a", ":", "p", "n", "g">>,
    <<"e">> }

\* String::toLowerCase on the letters the URLs hold in upper case
toLowerCase(s) ==
  [i \in 1..Len(s) |->
     CASE s[i] = "T" -> "t" [] s[i] = "G" -> "g" [] s[i] = "A" -> "a" [] OTHER -> s[i]]

\* std::string::substr(pos, n)
substr(s, pos, n) == SubSeq(s, pos + 1, pos + n)

\* String::split
RECURSIVE split(_, _)
split(s, separator) ==
  LET at == {i \in 1..Len(s) : s[i] = separator}
  IN IF at = {} THEN <<s>>
     ELSE LET i == CHOOSE j \in at : \A k \in at : j <= k
          IN <<SubSeq(s, 1, i - 1)>> \o split(SubSeq(s, i + 1, Len(s)), separator)

\* Scene::_addPendingData
_addPendingData(w, data) == [w EXCEPT !.env.pending = Append(@, data)]

\* Scene::_removePendingData
_removePendingData(w, data) ==
  [w EXCEPT !.env.pending = SelectSeq(@, LAMBDA d : d # data),
            !.env.removed = Append(@, data)]

\* Tools::LoadImage: the request returns at once; one of its callbacks is
\* invoked later.  The callback  onload  is TRUE for a function and FALSE for
\* nullptr.
LoadImage(w, texture, onload, noMipmap) ==
  [w EXCEPT !.env.loads = @ \cup {[texture |-> texture, onload |-> onload,
                                    noMipmap |-> noMipmap]}]

PrepareGLTexture(w, texture, noMipmap) ==
  LET w1 == _bindTextureDirectly(w, TEXTURE_2D, texture)
      w2 == GlCall(w1, <<"pixelStorei">>)
      w3 == [w2 EXCEPT !.textures[texture].isReady = TRUE]
      w4 == GlCall(w3, <<"texImage2D", TEXTURE_2D>>)
      w5 == GlCall(GlCall(w4, <<"texParameteri", "MAG">>), <<"texParameteri", "MIN">>)
      w6 == IF ~noMipmap THEN GlCall(w5, <<"generateMipmap", TEXTURE_2D>>) ELSE w5
      w7 == _bindTextureDirectly(w6, TEXTURE_2D, NULL)
  IN _removePendingData(resetTextureCache(w7), texture)

createTexture(w, _url, noMipmap) ==
  LET texture == FreshTexture(w)
      w1 == glCreateTexture(w)
      url == _url
      fromDataBool == Len(url) >= 5 /\ substr(url, 0, 5) = <<"d", "a", "t", "a", ":">>
      fromDataArray == IF fromDataBool THEN split(url, ":") ELSE <<>>
      extension ==
        IF ~fromDataBool
        THEN (IF Len(url) >= 4 THEN toLowerCase(substr(url, Len(url) - 4, 4)) ELSE <<>>)
        ELSE IF Len(fromDataArray) >= 2 /\ Len(fromDataArray[2]) >= 4
             THEN toLowerCase(substr(fromDataArray[2], Len(fromDataArray[2]) - 4, 4))
             ELSE <<>>
      isDDS == extension = <<".", "d", "d", "s">>
      isTGA == extension = <<".", "t", "g", "a">>
      w2 == _addPendingData(w1, texture)
      w3 == [w2 EXCEPT !.textures[texture].references = 1,
                       !.engine._loadedTexturesCache = Append(@, texture)]
      onload == ~isTGA /\ ~isDDS
      w4 == IF fromDataArray = <<>> THEN LoadImage(w3, texture, onload, noMipmap) ELSE w3
  IN [w4 EXCEPT !.ret = texture]

\* the  onload  callback of createTexture, invoked by the loader after
\* createTexture has returned: the locals it captured by reference are gone
\* (ub); invoking an empty std::function throws
onload(w, request, ub) ==
  IF ~request.onload THEN [w EXCEPT !.thrown = TRUE]
  ELSE IF ub = "crash" THEN [w EXCEPT !.crashed = TRUE]
  ELSE PrepareGLTexture(w, request.texture, request.noMipmap)

\* the  onerror  callback of createTexture, invoked after createTexture has
\* returned
onerror(w, request, ub) ==
  IF ub = "crash" THEN [w EXCEPT !.crashed = TRUE]
  ELSE _removePendingData(w, request.texture)

CreateTexture ==
  /\ ~crashed /\ CanCreateTexture
  /\ \E url \in Urls, noMipmap \in BOOLEAN :
       Commit(createTexture(World, url, noMipmap), "createTexture", <<url, noMipmap>>)
  /\ bindRun' = <<>>
  /\ UNCHANGED lastViewport

\* the image of a request has been decoded
LoadSucceeds ==
  /\ ~crashed
  /\ \E request \in env.loads, ub \in UBOutcomes :
       Commit(onload([World EXCEPT !.env.loads = @ \ {request}], request, ub),
              "onload", <<request.texture>>)
  /\ bindRun' = <<>>
  /\ UNCHANGED lastViewport

\* the image of a request could not be loaded
LoadFails ==
  /\ ~crashed
  /\ \E request \in env.loads, ub \in UBOutcomes :
       Commit(onerror([World EXCEPT !.env.loads = @ \ {request}], request, ub),
              "onerror", <<request.texture>>)
  /\ bindRun' = <<>>
  /\ UNCHANGED lastViewport

\* textures created from URLs and the completion of their loads
NextLoad ==
  \/ CreateTexture
  \/ LoadSucceeds
  \/ LoadFails

SpecLoad == InitNoTextures /\ [][NextLoad]_vars

\* how often  x  occurs in the sequence  s
Occurrences(s, x) == Cardinality({i \in 1..Len(s) : s[i] = x})

\* C14: every texture made by createTexture, whatever the kind of its URL, has
\* been added to the scene's pending data exactly once and is removed exactly
\* once: either it is pending, not removed yet and a load whose callback will
\* remove it is outstanding, or it is no longer pending and was removed once
C14_PendingResolved ==
  \A t \in CreatedTextures :
    \/ /\ Occurrences(env.pending, t) = 1
       /\ Occurrences(env.removed, t) = 0
       /\ \E request \in env.loads : request.texture = t
       /\ ~crashed
    \/ /\ Occurrences(env.pending, t) = 0
       /\ Occurrences(env.removed, t) = 1

(***************************************************************************)
(* Shader programs.  env.programs  holds the program objects of the        *)
(* device, by handle.  What the device answers to a compilation and a link *)
(* is an input:  device = [vertex, fragment, linked, log]  with the two    *)
(* compile statuses, the link status and whether the program info log is   *)
(* non-empty.                                                              *)
(***************************************************************************)
MaxPrograms == 2        \* programs of a run
DeviceAnswers == [vertex : BOOLEAN, fragment : BOOLEAN, linked : BOOLEAN, log : BOOLEAN]

\* the shader object gl->createShader hands out
FreshShader(w, type) == 2 * Len(w.env.programs) + (IF type = "vertex" THEN 1 ELSE 2)

CompileShader(w, type, defines, COMPILE_STATUS) ==
  LET shader == FreshShader(w, type)
      w1 == GlCall(w, <<"createShader", type, shader>>)
      w2 == GlCall(w1, <<"shaderSource", shader, defines>>)
      w3 == GlCall(GlCall(w2, <<"compileShader", shader>>), <<"getShaderParameter", shader>>)
  IN IF ~COMPILE_STATUS
     THEN [GlCall(w3, <<"getShaderInfoLog", shader>>) EXCEPT !.ret = NULL]
     ELSE [w3 EXCEPT !.ret = shader]

createShaderProgram(w, defines, device) ==
  LET w1 == CompileShader(w, "vertex", defines, device.vertex)
      vertexShader == w1.ret
      w2 == CompileShader(w1, "fragment", defines, device.fragment)
      fragmentShader == w2.ret
      shaderProgram == Len(w.env.programs) + 1
      w3 == GlCall(w2, <<"createProgram", shaderProgram>>)
      w4 == GlCall(w3, <<"attachShader", shaderProgram, vertexShader>>)
      w5 == GlCall(w4, <<"attachShader", shaderProgram, fragmentShader>>)
      linked == device.linked
      w6 == [GlCall(w5, <<"linkProgram", shaderProgram>>)
               EXCEPT !.env.programs =
                        Append(@, [vertexShader |-> vertexShader,
                                   fragmentShader |-> fragmentShader,
                                   linked |-> linked])]
      w7 == IF ~linked THEN GlCall(w6, <<"getProgramInfoLog", shaderProgram>>) ELSE w6
  IN IF ~linked /\ device.log
     THEN [w7 EXCEPT !.ret = NULL]
     ELSE [GlCall(GlCall(w7, <<"deleteShader", vertexShader>>),
                  <<"deleteShader", fragmentShader>>)
             EXCEPT !.ret = shaderProgram]

CreateShaderProgram ==
  /\ ~crashed
  /\ Len(env.programs) < MaxPrograms
  /\ \E defines \in BOOLEAN, device \in DeviceAnswers :
       Commit(createShaderProgram(World, defines, device), "createShaderProgram",
              <<defines, device>>)
  /\ bindRun' = <<>>
  /\ UNCHANGED lastViewport

\* the creation of shader programs
NextShader ==
  \/ CreateShaderProgram

SpecShader == InitNoTextures /\ [][NextShader]_vars

\* C15: createShaderProgram returns a null program whenever the compilation
\* of the vertex or the fragment shader fails or the link fails, whatever the
\* info log holds; a non-null program means both shaders compiled and the
\* program linked
C15_NullOnFailure ==
  lastOp.op = "createShaderProgram" =>
    LET device == lastOp.args[2]
    IN (lastOp.ret # NULL) => (device.vertex /\ device.fragment /\ device.linked)

(***************************************************************************)
(* Part II.  Bones.                                                        *)
(*                                                                         *)
(* The math kernel.  A Matrix is the sequence of its sixteen floats m[0]   *)
(* to m[15], row after row; vectors are rows and the translation is m[12], *)
(* m[13], m[14].  A Vector3 is <<x, y, z>>.  The kernel is taken to be     *)
(* correct: its operators compute the exact results.                       *)
(***************************************************************************)
Zero == <<0, 1>>
One == <<1, 1>>
RNeg(a) == RSub(<<0, 1>>, a)

\* the float m[i] of a matrix
M(mat, i) == mat[i + 1]

\* Matrix::Identity
Identity == [i \in 1..16 |-> IF i \in {1, 6, 11, 16} THEN One ELSE Zero]

\* Matrix::Translation
Translation(x, y, z) == [Identity EXCEPT ![13] = x, ![14] = y, ![15] = z]

\* Matrix::FromValuesToRef for a scaling
Scaling(x, y, z) == [Identity EXCEPT ![1] = x, ![6] = y, ![11] = z]

\* Matrix::multiplyToRef: the product  a x b; the operands are read into
\* locals first, so the result may be one of them
multiply(a, b) ==
  CHOOSE result \in
    {LET E(r, c) == RAdd(RAdd(RMul(tm[r + 1], om[c]), RMul(tm[r + 2], om[c + 4])),
                         RAdd(RMul(tm[r + 3], om[c + 8]), RMul(tm[r + 4], om[c + 12])))
     IN <<E(0, 1), E(0, 2), E(0, 3), E(0, 4),
          E(4, 1), E(4, 2), E(4, 3), E(4, 4),
          E(8, 1), E(8, 2), E(8, 3), E(8, 4),
          E(12, 1), E(12, 2), E(12, 3), E(12, 4)>> : tm \in {a}, om \in {b}} : TRUE

\* Matrix::invert, for the matrices of a skeleton: the last column of each is
\* (0, 0, 0, 1)
invert(matrix) ==
  CHOOSE result \in {
  LET D(p, q, r, s) == RSub(RMul(M(a, p), M(a, s)), RMul(M(a, q), M(a, r)))
      c11 == D(5, 6, 9, 10)
      c12 == RNeg(D(4, 6, 8, 10))
      c13 == D(4, 5, 8, 9)
      c21 == RNeg(D(1, 2, 9, 10))
      c22 == D(0, 2, 8, 10)
      c23 == RNeg(D(0, 1, 8, 9))
      c31 == D(1, 2, 5, 6)
      c32 == RNeg(D(0, 2, 4, 6))
      c33 == D(0, 1, 4, 5)
      det == RAdd(RAdd(RMul(M(a, 0), c11), RMul(M(a, 1), c12)), RMul(M(a, 2), c13))
      i11 == RDiv(c11, det)
      i12 == RDiv(c21, det)
      i13 == RDiv(c31, det)
      i21 == RDiv(c12, det)
      i22 == RDiv(c22, det)
      i23 == RDiv(c32, det)
      i31 == RDiv(c13, det)
      i32 == RDiv(c23, det)
      i33 == RDiv(c33, det)
      T(p, q, r) == RNeg(RAdd(RAdd(RMul(M(a, 12), p), RMul(M(a, 13), q)), RMul(M(a, 14), r)))
  IN <<i11, i12, i13, Zero,
       i21, i22, i23, Zero,
       i31, i32, i33, Zero,
       T(i11, i21, i31), T(i12, i22, i32), T(i13, i23, i33), One>> : a \in {matrix}} : TRUE

\* Vector3::TransformCoordinatesToRef
TransformCoordinates(vector, transformation) ==
  CHOOSE result \in {
  LET L(c) == RAdd(RAdd(RMul(v[1], M(t, c)), RMul(v[2], M(t, c + 4))),
                   RAdd(RMul(v[3], M(t, c + 8)), M(t, c + 12)))
  IN <<RDiv(L(0), L(3)), RDiv(L(1), L(3)), RDiv(L(2), L(3))>>
       : v \in {vector}, t \in {transformation}} : TRUE

\* sine and cosine of a number of quarter turns
Sin(quarters) == <<<<0, 1>>, <<1, 1>>, <<0, 1>>, <<-1, 1>>>>[(quarters % 4) + 1]
Cos(quarters) == Sin(quarters + 1)

\* Matrix::RotationAxisToRef for a unit axis and an angle in quarter turns; it
\* leaves m[12], m[13], m[14] of the result as they are
RotationAxis(axis, quarters, result) ==
  LET s == Sin(-quarters)
      c == Cos(-quarters)
      c1 == RSub(One, c)
      x == axis[1]
      y == axis[2]
      z == axis[3]
      E(p, q, r) == RAdd(RMul(RMul(p, q), c1), r)
  IN <<E(x, x, c), E(x, y, RNeg(RMul(z, s))), E(x, z, RMul(y, s)), Zero,
       E(x, y, RMul(z, s)), E(y, y, c), E(y, z, RNeg(RMul(x, s))), Zero,
       E(x, z, RNeg(RMul(y, s))), E(y, z, RMul(x, s)), E(z, z, c), Zero,
       result[13], result[14], result[15], One>>

\* the translation of a matrix
TranslationOf(mat) == <<M(mat, 12), M(mat, 13), M(mat, 14)>>

\* m[12], m[13], m[14] of  mat  become  v
WithTranslation(mat, v) == [mat EXCEPT ![13] = v[1], ![14] = v[2], ![15] = v[3]]

(***************************************************************************)
(* The skeleton.  A bone is known by its index in the skeleton's list, in  *)
(* the order of construction; its children are the bones that name it as   *)
(* _parent, in that order.  Operations work on the record                  *)
(*   s = [bones, poseMatrix, _isDirty, crashed, ret].                      *)
(* A skeleton or a matrix that an operation reads more than once is bound  *)
(* over a singleton set, which evaluates it once.                          *)
(* _restPose, _negateScaleChildren and _scalingDeterminant of a bone are   *)
(* not part of the model: no operation modelled here reads them.           *)
(***************************************************************************)
MaxBoneOps == 2         \* pose-setting operations of a run
\* Space::LOCAL and Space::WORLD
Spaces == {"LOCAL", "WORLD"}

\* the integer n as a float
R(n) == <<n, 1>>
Vector3(x, y, z) == <<x, y, z>>

\* the world matrix of the mesh the skeleton is bound to
MeshWorldMatrix == WithTranslation(Scaling(R(2), R(2), R(2)), Vector3(R(0), R(1), R(0)))
\* the mesh arguments: none, or the bound mesh
Meshes == {NULL, 1}

\* what reading the absolute transform of a null _parent does in a given
\* build: the read traps, or it yields whatever lies at that address
NullReads ==
  {[outcome |-> "crash", value |-> Identity],
   [outcome |-> "returns", value |-> Identity],
   [outcome |-> "returns", value |-> Translation(R(1), R(1), R(1))]}

BoneWorld ==
  [bones |-> bones, poseMatrix |-> env.poseMatrix, _isDirty |-> env._isDirty,
   crashed |-> crashed, ret |-> NULL]

\* Skeleton::_markAsDirty
_markAsDirty(s) == [s EXCEPT !._isDirty = TRUE]

\* Bone::markAsDirty
markAsDirty(s, b) == _markAsDirty([s EXCEPT !.bones[b]._currentRenderId = @ + 1])

RECURSIVE _updateDifferenceMatrix(_, _)
RECURSIVE _updateDifferenceMatrixOfChildren(_, _, _)
\* _updateDifferenceMatrix(_baseMatrix)
_updateDifferenceMatrix(skeleton, b) ==
  CHOOSE result \in {
    CHOOSE updated \in {
      _updateDifferenceMatrixOfChildren(
        [s EXCEPT !.bones[b]._absoluteTransform = _absoluteTransform,
                  !.bones[b]._invertedAbsoluteTransform = invert(_absoluteTransform)], b, 1)
      : _absoluteTransform \in
          {IF s.bones[b]._parent # NULL
           THEN multiply(s.bones[b]._baseMatrix,
                         s.bones[s.bones[b]._parent]._absoluteTransform)
           ELSE s.bones[b]._baseMatrix}} : TRUE
    : s \in {skeleton}} : TRUE

\* for (auto& child : children) child->_updateDifferenceMatrix(), from  child  on
_updateDifferenceMatrixOfChildren(skeleton, b, child) ==
  CHOOSE result \in {
    IF child > Len(s.bones) THEN s
    ELSE IF s.bones[child]._parent = b
    THEN _updateDifferenceMatrixOfChildren(_updateDifferenceMatrix(s, child), b, child + 1)
    ELSE _updateDifferenceMatrixOfChildren(s, b, child + 1)
    : s \in {skeleton}} : TRUE

\* a bone as the initializer list of Bone::Bone leaves it; Node::animations
\* is empty and  children  holds the bones constructed with this parent
NewBone(parentBone, matrix) ==
  [_parent |-> parentBone,
   children |-> <<>>,
   animations |-> <<>>,
   length |-> -1,
   _matrix |-> matrix,
   _baseMatrix |-> matrix,
   _absoluteTransform |-> Identity,
   _invertedAbsoluteTransform |-> Identity,
   _scaleMatrix |-> Identity,
   _scaleVector |-> Vector3(R(1), R(1), R(1)),
   _currentRenderId |-> 0]

\* Bone::Bone with a plausible fault: the parent is recorded in the child
\* and the child is not appended to the parent's list
Bone_nolink(s, parentBone, matrix) ==
  _updateDifferenceMatrix(
    [s EXCEPT !.bones = Append(@, NewBone(parentBone, matrix))],
    Len(s.bones) + 1)

\* Bone::Bone(name, skeleton, parentBone, matrix) and addToSkeleton
Bone(s, parentBone, matrix) ==
  _updateDifferenceMatrix(
    IF parentBone # NULL
    THEN [s EXCEPT !.bones =
                     Append([@ EXCEPT ![parentBone].children =
                                        Append(@, Len(s.bones) + 1)],
                            NewBone(parentBone, matrix))]
    ELSE [s EXCEPT !.bones = Append(@, NewBone(parentBone, matrix))],
    Len(s.bones) + 1)

updateMatrix(s, b, matrix, updateDifferenceMatrix) ==
  IF updateDifferenceMatrix
  THEN _updateDifferenceMatrix(_markAsDirty([s EXCEPT !.bones[b]._baseMatrix = matrix,
                                                      !.bones[b]._matrix = matrix]), b)
  ELSE _markAsDirty([s EXCEPT !.bones[b]._baseMatrix = matrix,
                              !.bones[b]._matrix = matrix])

RECURSIVE computeAbsoluteTransforms_base(_, _)
RECURSIVE computeAbsoluteTransformsOfChildren_base(_, _, _)
\* computeAbsoluteTransforms with a plausible fault: the base matrix of a
\* bone is combined with the parent instead of its local matrix
computeAbsoluteTransforms_base(skeleton, b) ==
  CHOOSE result \in {
    computeAbsoluteTransformsOfChildren_base(
      [s EXCEPT !.bones[b]._absoluteTransform =
                  IF s.bones[b]._parent # NULL
                  THEN multiply(s.bones[b]._baseMatrix,
                                s.bones[s.bones[b]._parent]._absoluteTransform)
                  ELSE IF s.poseMatrix # <<>>
                  THEN multiply(s.bones[b]._baseMatrix, s.poseMatrix)
                  ELSE s.bones[b]._baseMatrix], b, 1)
    : s \in {skeleton}} : TRUE

computeAbsoluteTransformsOfChildren_base(skeleton, b, child) ==
  CHOOSE result \in {
    IF child > Len(s.bones) THEN s
    ELSE IF s.bones[child]._parent = b
    THEN computeAbsoluteTransformsOfChildren_base(
           computeAbsoluteTransforms_base(s, child), b, child + 1)
    ELSE computeAbsoluteTransformsOfChildren_base(s, b, child + 1)
    : s \in {skeleton}} : TRUE

RECURSIVE computeAbsoluteTransforms(_, _)
RECURSIVE computeAbsoluteTransformsOfChildren(_, _, _)
computeAbsoluteTransforms(skeleton, b) ==
  CHOOSE result \in {
    computeAbsoluteTransformsOfChildren(
      [s EXCEPT !.bones[b]._absoluteTransform =
                  IF s.bones[b]._parent # NULL
                  THEN multiply(s.bones[b]._matrix,
                                s.bones[s.bones[b]._parent]._absoluteTransform)
                  ELSE IF s.poseMatrix # <<>>
                  THEN multiply(s.bones[b]._matrix, s.poseMatrix)
                  ELSE s.bones[b]._matrix], b, 1)
    : s \in {skeleton}} : TRUE

\* for (auto& child : children) child->computeAbsoluteTransforms(), from  child  on
computeAbsoluteTransformsOfChildren(skeleton, b, child) ==
  CHOOSE result \in {
    IF child > Len(s.bones) THEN s
    ELSE IF s.bones[child]._parent = b
    THEN computeAbsoluteTransformsOfChildren(computeAbsoluteTransforms(s, child), b, child + 1)
    ELSE computeAbsoluteTransformsOfChildren(s, b, child + 1)
    : s \in {skeleton}} : TRUE

\* Skeleton::computeAbsoluteTransforms: the recompute of the whole hierarchy,
\* from the first bone
SkeletonComputeAbsoluteTransforms(s) == computeAbsoluteTransforms(s, 1)

\* _parent->getAbsoluteTransform(); a bone without parent reads through null
ParentAbsoluteTransform(s, b, ub) ==
  IF s.bones[b]._parent # NULL THEN s.bones[s.bones[b]._parent]._absoluteTransform
  ELSE ub.value

\* m[12], m[13], m[14] of the local matrix of bone  b  grow by  v
AddToTranslation(s, b, v) ==
  [s EXCEPT !.bones[b]._matrix =
              WithTranslation(@, <<RAdd(M(@, 12), v[1]), RAdd(M(@, 13), v[2]),
                                   RAdd(M(@, 14), v[3])>>)]

translate(skeleton, b, vec, space, mesh, ub) ==
  IF space = "LOCAL" THEN markAsDirty(AddToTranslation(skeleton, b, vec), b)
  ELSE CHOOSE result \in {
         IF s.bones[b]._parent = NULL /\ ub.outcome = "crash"
         THEN [s EXCEPT !.crashed = TRUE]
         ELSE CHOOSE moved \in {
                markAsDirty(AddToTranslation(s, b, tvec), b)
                : tvec \in
                    {TransformCoordinates(
                       vec,
                       invert(WithTranslation(
                                IF mesh # NULL
                                THEN multiply(ParentAbsoluteTransform(s, b, ub),
                                              MeshWorldMatrix)
                                ELSE ParentAbsoluteTransform(s, b, ub),
                                Vector3(Zero, Zero, Zero))))}} : TRUE
         : s \in {SkeletonComputeAbsoluteTransforms(skeleton)}} : TRUE

setPosition(skeleton, b, position, space, mesh, ub) ==
  IF space = "LOCAL"
  THEN markAsDirty([skeleton EXCEPT !.bones[b]._matrix = WithTranslation(@, position)], b)
  ELSE CHOOSE result \in {
         IF s.bones[b]._parent = NULL /\ ub.outcome = "crash"
         THEN [s EXCEPT !.crashed = TRUE]
         ELSE CHOOSE moved \in {
                markAsDirty([s EXCEPT !.bones[b]._matrix = WithTranslation(@, vec)], b)
                : vec \in
                    {TransformCoordinates(
                       position,
                       invert(IF mesh # NULL
                              THEN multiply(ParentAbsoluteTransform(s, b, ub),
                                            MeshWorldMatrix)
                              ELSE ParentAbsoluteTransform(s, b, ub)))}} : TRUE
         : s \in {SkeletonComputeAbsoluteTransforms(skeleton)}} : TRUE

RECURSIVE scale_always(_, _, _, _, _, _)
RECURSIVE scale(_, _, _, _, _, _)
RECURSIVE scaleChildrenLocal(_, _, _, _, _, _)
RECURSIVE scaleOfChildren(_, _, _, _, _, _, _)
\* the loop of scale over the local matrices of the children, from  child  on
scaleChildrenLocal(skeleton, b, x, y, z, child) ==
  CHOOSE result \in {
    IF child > Len(s.bones) THEN s
    ELSE IF s.bones[child]._parent = b
    THEN CHOOSE scaled \in {
           scaleChildrenLocal(
             [s EXCEPT !.bones[child]._matrix =
                         WithTranslation(cm, <<RMul(M(cm, 12), x), RMul(M(cm, 13), y),
                                               RMul(M(cm, 14), z)>>)],
             b, x, y, z, child + 1)
           : cm \in {multiply(s.bones[child]._matrix, invert(Scaling(x, y, z)))}} : TRUE
    ELSE scaleChildrenLocal(s, b, x, y, z, child + 1)
    : s \in {skeleton}} : TRUE

\* for (auto& child : children) child->scale(x, y, z, scaleChildren), from
\* child  on
scaleOfChildren(skeleton, b, x, y, z, scaleChildren, child) ==
  CHOOSE result \in {
    IF child > Len(s.bones) THEN s
    ELSE IF s.bones[child]._parent = b
    THEN scaleOfChildren(scale(s, child, x, y, z, scaleChildren), b, x, y, z,
                         scaleChildren, child + 1)
    ELSE scaleOfChildren(s, b, x, y, z, scaleChildren, child + 1)
    : s \in {skeleton}} : TRUE

\* the body of scale up to the recursion into the children
scaleSelf(skeleton, b, x, y, z) ==
  CHOOSE result \in {
    CHOOSE scaled \in {
      computeAbsoluteTransforms(
        scaleChildrenLocal(
          [s EXCEPT !.bones[b]._scaleMatrix = multiply(@, Scaling(x, y, z)),
                    !.bones[b]._scaleVector =
                       <<RMul(@[1], x), RMul(@[2], y), RMul(@[3], z)>>,
                    !.bones[b]._matrix = locMat,
                    !.bones[b]._absoluteTransform =
                       IF s.bones[b]._parent # NULL
                       THEN multiply(locMat, s.bones[s.bones[b]._parent]._absoluteTransform)
                       ELSE locMat],
          b, x, y, z, 1), b)
      : locMat \in
          {multiply(multiply(multiply(s.bones[b]._matrix, invert(s.bones[b]._matrix)),
                             Scaling(x, y, z)),
                    s.bones[b]._matrix)}} : TRUE
    : s \in {skeleton}} : TRUE

\* scale with a plausible fault: the children are scaled whatever
\* scaleChildren says
scale_always(s, b, x, y, z, scaleChildren) ==
  markAsDirty(scaleOfChildren(scaleSelf(s, b, x, y, z), b, x, y, z, scaleChildren, 1), b)

scale(s, b, x, y, z, scaleChildren) ==
  markAsDirty(IF scaleChildren
              THEN scaleOfChildren(scaleSelf(s, b, x, y, z), b, x, y, z, scaleChildren, 1)
              ELSE scaleSelf(s, b, x, y, z), b)

\* lmat x parentScale x rmat x parentScale^-1
Sandwich(lmat, parentScale, rmat) ==
  CHOOSE result \in
    {multiply(multiply(multiply(lmat, p), rmat), invert(p)) : p \in {parentScale}} : TRUE

_rotateWithMatrix(skeleton, b, rmat, space, mesh) ==
  CHOOSE result \in {
    markAsDirty(
      computeAbsoluteTransforms(
        [s EXCEPT !.bones[b]._matrix =
           WithTranslation(
             IF s.bones[b]._parent # NULL
             THEN Sandwich(@,
                           IF space = "WORLD"
                           THEN (IF mesh # NULL
                                 THEN multiply(s.bones[s.bones[b]._parent]._absoluteTransform,
                                               MeshWorldMatrix)
                                 ELSE s.bones[s.bones[b]._parent]._absoluteTransform)
                           ELSE s.bones[s.bones[b]._parent]._scaleMatrix,
                           rmat)
             ELSE IF space = "WORLD" /\ mesh # NULL THEN Sandwich(@, MeshWorldMatrix, rmat)
             ELSE multiply(@, rmat),
             TranslationOf(@))], b), b)
    : s \in {skeleton}} : TRUE

\* amount  is in quarter turns
rotate(s, b, axis, amount, space, mesh) ==
  _rotateWithMatrix(s, b, RotationAxis(axis, amount, Translation(Zero, Zero, Zero)),
                    space, mesh)

\* getPosition and getPositionToRef
getPosition(skeleton, b, space, mesh) ==
  IF space = "LOCAL"
  THEN [skeleton EXCEPT !.ret = TranslationOf(skeleton.bones[b]._matrix)]
  ELSE CHOOSE result \in {
         [s EXCEPT !.ret =
            TranslationOf(IF mesh # NULL
                          THEN multiply(s.bones[b]._absoluteTransform, MeshWorldMatrix)
                          ELSE s.bones[b]._absoluteTransform)]
         : s \in {SkeletonComputeAbsoluteTransforms(skeleton)}} : TRUE

(***************************************************************************)
(* Actions of the bones.  The arguments come from small sets on which the  *)
(* arithmetic is exact: integer translations, scalings by 2 and 1/2 and    *)
(* quarter turns.                                                          *)
(***************************************************************************)
\* the bones of the skeleton
BoneIds == DOMAIN bones
TranslateVectors == {Vector3(R(1), R(0), R(2))}
Positions == {Vector3(R(3), R(1), R(0))}
ScaleFactors == {Vector3(R(2), R(1), <<1, 2>>)}
Axes == {Vector3(Zero, Zero, One)}
UpdateMatrices == {Translation(R(2), R(0), R(0))}
PoseMatrices == {<<>>, Translation(R(0), R(0), R(1))}

\* a skeleton of three bones in a chain, with or without a pose matrix
InitBones ==
  /\ EngineConstructed
  /\ engine._currentFramebuffer = NULL
  /\ engine._activeTexture = Indeterminate
  /\ \E poseMatrix \in PoseMatrices : env = [EnvInit EXCEPT !.poseMatrix = poseMatrix]
  /\ LET s0 == [bones |-> <<>>, poseMatrix |-> env.poseMatrix, _isDirty |-> FALSE,
                crashed |-> FALSE, ret |-> NULL]
         s1 == Bone(s0, NULL, Translation(R(1), R(0), R(0)))
         s2 == Bone(s1, 1, RotationAxis(Vector3(Zero, Zero, One), 1,
                                        Translation(R(1), R(1), R(0))))
         s3 == Bone(s2, 2, Translation(R(0), R(2), R(1)))
     IN bones = s3.bones
  /\ sps = <<>>
  /\ ray = <<>>

\* the skeleton  s  becomes the state: the operation  op(args)  has returned
CommitBones(s, op, args, posed) ==
  /\ bones' = s.bones
  /\ crashed' = s.crashed
  /\ env' = [env EXCEPT !._isDirty = s._isDirty, !.boneOps = @ + posed]
  /\ lastOp' = [op |-> op, args |-> args, ret |-> s.ret, thrown |-> FALSE]
  /\ UNCHANGED <<engine, gl, buffers, textures, bindRun, lastViewport, sps, ray>>

CanPose == ~crashed /\ env.boneOps < MaxBoneOps

UpdateMatrix ==
  /\ CanPose
  /\ \E b \in BoneIds, matrix \in UpdateMatrices, updateDifferenceMatrix \in BOOLEAN :
       \E s \in {updateMatrix(BoneWorld, b, matrix, updateDifferenceMatrix)} :
         CommitBones(s, "updateMatrix", <<b, updateDifferenceMatrix>>, 1)

Translate ==
  /\ CanPose
  /\ \E b \in BoneIds, vec \in TranslateVectors, space \in Spaces, mesh \in Meshes,
        ub \in NullReads :
       /\ space = "LOCAL" => mesh = NULL
       /\ (space = "LOCAL" \/ bones[b]._parent # NULL) => ub.outcome = "crash"
       /\ \E s \in {translate(BoneWorld, b, vec, space, mesh, ub)} :
            CommitBones(s, "translate", <<b, vec, space, mesh>>, 1)

SetPosition ==
  /\ CanPose
  /\ \E b \in BoneIds, position \in Positions, space \in Spaces, mesh \in Meshes,
        ub \in NullReads :
       /\ space = "LOCAL" => mesh = NULL
       /\ (space = "LOCAL" \/ bones[b]._parent # NULL) => ub.outcome = "crash"
       /\ \E s \in {setPosition(BoneWorld, b, position, space, mesh, ub)} :
            CommitBones(s, "setPosition", <<b, position, space, mesh>>, 1)

Scale ==
  /\ CanPose
  /\ \E b \in BoneIds, f \in ScaleFactors, scaleChildren \in BOOLEAN :
       \E s \in {scale(BoneWorld, b, f[1], f[2], f[3], scaleChildren)} :
         CommitBones(s, "scale", <<b, f, scaleChildren>>, 1)

Rotate ==
  /\ CanPose
  /\ \E b \in BoneIds, axis \in Axes, space \in Spaces, mesh \in Meshes :
       /\ space = "LOCAL" => mesh = NULL
       /\ \E s \in {rotate(BoneWorld, b, axis, 1, space, mesh)} :
            CommitBones(s, "rotate", <<b, axis, space, mesh>>, 1)

ComputeAbsoluteTransforms ==
  /\ ~crashed
  /\ \E b \in BoneIds :
       \E s \in {computeAbsoluteTransforms(BoneWorld, b)} :
         CommitBones(s, "computeAbsoluteTransforms", <<b>>, 0)

GetPosition ==
  /\ ~crashed
  /\ \E b \in BoneIds, space \in Spaces, mesh \in Meshes :
       /\ space = "LOCAL" => mesh = NULL
       /\ \E s \in {getPosition(BoneWorld, b, space, mesh)} :
            CommitBones(s, "getPosition", <<b, space, mesh>>, 0)

\* the poses of a skeleton and the recompute of its absolute transforms
NextBones ==
  \/ UpdateMatrix
  \/ Translate
  \/ SetPosition
  \/ Scale
  \/ Rotate
  \/ ComputeAbsoluteTransforms

SpecBones == InitBones /\ [][NextBones]_vars

\* positions set and read back
NextPosition ==
  \/ Scale
  \/ SetPosition
  \/ GetPosition

SpecPosition == InitBones /\ [][NextPosition]_vars

\* scalings of posed bones
NextScale ==
  \/ Translate
  \/ Rotate
  \/ Scale

SpecScale == InitBones /\ [][NextScale]_vars

(***************************************************************************)
(* Properties of the bones.                                                *)
(***************************************************************************)
\* C16: after any sequence of translate, rotate, scale, setPosition and
\* updateMatrix calls followed by a recompute of the absolute transforms from
\* the root, the absolute transform of every bone with a parent is its local
\* matrix times the absolute transform of the parent
C16_AbsoluteIsLocalTimesParent ==
  (lastOp.op = "computeAbsoluteTransforms" /\ bones[lastOp.args[1]]._parent = NULL) =>
    \A b \in BoneIds :
      bones[b]._parent # NULL =>
        bones[b]._absoluteTransform =
          multiply(bones[b]._matrix, bones[bones[b]._parent]._absoluteTransform)

\* the root has recomputed the hierarchy after two poses, one of which moved
\* the local matrix of the second bone away from its base matrix
C16_Witness ==
  /\ lastOp.op = "computeAbsoluteTransforms"
  /\ lastOp.args[1] = 1
  /\ env.boneOps >= 2
  /\ bones[2]._matrix # bones[2]._baseMatrix
  /\ bones[3]._absoluteTransform # multiply(bones[3]._baseMatrix, bones[2]._absoluteTransform)

\* C17: in every state the inverted absolute transform of each bone is the
\* inverse of its absolute transform
C17_InverseIsInverse ==
  \A b \in BoneIds :
    multiply(bones[b]._absoluteTransform, bones[b]._invertedAbsoluteTransform) = Identity

\* C18: setPosition(p, WORLD, mesh) completes, and getPosition(WORLD, mesh) on
\* the same bone right after it returns p, for bones with and without a
\* parent, with and without a mesh
C18_PositionRoundTrip ==
  [][/\ (lastOp'.op = "setPosition" /\ lastOp'.args[3] = "WORLD") => ~crashed'
     /\ (/\ lastOp.op = "setPosition" /\ lastOp.args[3] = "WORLD"
         /\ lastOp'.op = "getPosition" /\ lastOp'.args[2] = "WORLD"
         /\ lastOp'.args[1] = lastOp.args[1]
         /\ lastOp'.args[3] = lastOp.args[4])
        => lastOp'.ret = lastOp.args[2]]_vars

\* the world-space position of bone  b  of the skeleton  bs: the translation of
\* its absolute transform once the hierarchy is recomputed
WorldPosition(bs, b) ==
  TranslationOf(SkeletonComputeAbsoluteTransforms(
                  [bones |-> bs, poseMatrix |-> env.poseMatrix, _isDirty |-> FALSE,
                   crashed |-> FALSE, ret |-> NULL]).bones[b]._absoluteTransform)

\* C19: scale(x, y, z, false) leaves the world-space position of each child
\* of the scaled bone as it was before the call
C19_ChildrenStay ==
  [][(lastOp'.op = "scale" /\ ~lastOp'.args[3]) =>
       \A c \in BoneIds :
         bones[c]._parent = lastOp'.args[1] =>
           WorldPosition(bones', c) = WorldPosition(bones, c)]_vars

\* bone  d  lies below bone  b
RECURSIVE IsDescendant(_, _, _)
IsDescendant(bs, d, b) ==
  /\ bs[d]._parent # NULL
  /\ (bs[d]._parent = b \/ IsDescendant(bs, bs[d]._parent, b))

\* C20: scale(x, y, z, true) multiplies the scale vector of the bone and of
\* every descendant by (x, y, z), component by component, once;
\* scale(x, y, z, false) multiplies the scale vector of the bone alone
C20_ScaleVectors ==
  [][lastOp'.op = "scale" =>
       LET b == lastOp'.args[1]
           f == lastOp'.args[2]
           scaleChildren == lastOp'.args[3]
       IN \A d \in BoneIds :
            bones'[d]._scaleVector =
              IF d = b \/ (scaleChildren /\ IsDescendant(bones, d, b))
              THEN <<RMul(bones[d]._scaleVector[1], f[1]),
                     RMul(bones[d]._scaleVector[2], f[2]),
                     RMul(bones[d]._scaleVector[3], f[3])>>
              ELSE bones[d]._scaleVector]_vars

\* the second bone has been scaled with its children after the root was scaled
\* alone: each of the three bones carries the factor once
C20_Witness ==
  /\ lastOp.op = "scale"
  /\ lastOp.args[1] = 2
  /\ lastOp.args[3]
  /\ bones[3]._scaleVector = lastOp.args[2]
  /\ bones[1]._scaleVector = lastOp.args[2]
  /\ bones[2]._scaleVector = lastOp.args[2]

(***************************************************************************)
(* Animation tracks of bones: Bone::copyAnimationRange.  The Animation     *)
(* class is outside the sources at hand; a track is modelled as the record *)
(*   [keys, ranges]                                                        *)
(* of its keys  [frame, value]  in order and its named ranges              *)
(* [name, from, to].  A null Animation* is the empty tuple.  Node::        *)
(* animations of a bone is the sequence  animations  of its record.        *)
(***************************************************************************)
\* Animation::getRange found a range of that name
HasRange(animation, name) ==
  \E i \in DOMAIN animation.ranges : animation.ranges[i].name = name

\* Animation::getRange;  absent  is what the track hands out for a name it
\* does not hold
getRange(animation, name, absent) ==
  IF HasRange(animation, name)
  THEN animation.ranges[CHOOSE i \in DOMAIN animation.ranges :
                          animation.ranges[i].name = name]
  ELSE absent

\* Animation::createRange
createRange(animation, name, from, to) ==
  [animation EXCEPT !.ranges =
     IF HasRange(animation, name)
     THEN [i \in DOMAIN @ |->
             IF @[i].name = name THEN [name |-> name, from |-> from, to |-> to]
             ELSE @[i]]
     ELSE Append(@, [name |-> name, from |-> from, to |-> to])]

\* Vector3::scaleInPlace and Vector3::multiplyInPlace
scaleInPlace(v, factor) == Vector3(RMul(v[1], factor), RMul(v[2], factor), RMul(v[3], factor))
multiplyInPlace(v, o) == Vector3(RMul(v[1], o[1]), RMul(v[2], o[2]), RMul(v[3], o[3]))

\* std_util::almost_equal on the exact values of the model
almost_equal(a, b) == a = b

\* the body of the loop of copyAnimationRange for the key  orig : its matrix
copiedMatrix(orig, rescaleAsRequired, parentScalingReqd, parentRatio, dimensionsScalingReqd, skelDimensionsRatio) ==
  IF rescaleAsRequired /\ parentScalingReqd
  THEN WithTranslation(orig.value, scaleInPlace(TranslationOf(orig.value), parentRatio))
  ELSE IF rescaleAsRequired /\ dimensionsScalingReqd
  THEN WithTranslation(orig.value,
                       multiplyInPlace(TranslationOf(orig.value), skelDimensionsRatio))
  ELSE orig.value

RECURSIVE copyKeys(_, _, _, _, _, _, _, _, _, _, _)
\* for (const auto& orig : sourceKeys), from the key  k  on
copyKeys(destKeys, sourceKeys, k, from, to, frameOffset, rescaleAsRequired, parentScalingReqd, parentRatio, dimensionsScalingReqd, skelDimensionsRatio) ==
  IF k > Len(sourceKeys) THEN destKeys
  ELSE copyKeys(
         IF sourceKeys[k].frame >= from /\ sourceKeys[k].frame <= to
         THEN Append(destKeys,
                     [frame |-> sourceKeys[k].frame + frameOffset,
                      value |-> copiedMatrix(sourceKeys[k], rescaleAsRequired,
                                             parentScalingReqd, parentRatio,
                                             dimensionsScalingReqd, skelDimensionsRatio)])
         ELSE destKeys,
         sourceKeys, k + 1, from, to, frameOffset, rescaleAsRequired,
         parentScalingReqd, parentRatio, dimensionsScalingReqd, skelDimensionsRatio)

\* copyAnimationRange from the read of the source range on
copyAnimationRange_copy(s, b, source, rangeName, frameOffset, rescaleAsRequired, skel, absent) ==
  LET src == s.bones[source]
      this == s.bones[b]
      sourceRange == getRange(src.animations[1], rangeName, absent)
      parentScalingReqd == /\ rescaleAsRequired
                           /\ src._parent # NULL
                           /\ src.length > 0
                           /\ this.length > 0
                           /\ src.length # this.length
      dimensionsScalingReqd ==
        /\ rescaleAsRequired
        /\ this._parent = NULL
        /\ skel.has
        /\ \/ ~almost_equal(skel.ratio[1], One)
           \/ ~almost_equal(skel.ratio[2], One)
           \/ ~almost_equal(skel.ratio[3], One)
  IN IF parentScalingReqd /\ this._parent = NULL
     THEN \* parent->length through a null parent
          [s EXCEPT !.crashed = TRUE]
     ELSE IF this.animations = <<>> \/ this.animations[1] = <<>>
     THEN \* animations[0]->getKeys() without a track
          [s EXCEPT !.crashed = TRUE]
     ELSE [s EXCEPT
             !.bones[b].animations[1] =
               createRange(
                 [@ EXCEPT !.keys =
                    copyKeys(@, src.animations[1].keys, 1,
                             sourceRange.from, sourceRange.to, frameOffset,
                             rescaleAsRequired, parentScalingReqd,
                             IF parentScalingReqd
                             THEN RDiv(R(s.bones[this._parent].length),
                                       R(s.bones[src._parent].length))
                             ELSE Zero,
                             dimensionsScalingReqd, skel.ratio)],
                 rangeName, sourceRange.from + frameOffset,
                 sourceRange.to + frameOffset),
             !.ret = TRUE]

\* Bone::copyAnimationRange;  ub  is what the build does with the read of
\* the first element of an empty  source->animations
copyAnimationRange(s, b, source, rangeName, frameOffset, rescaleAsRequired, skel, absent, ub) ==
  IF s.bones[source].animations = <<>>
  THEN IF ub = "returns"
       THEN \* the slot read holds a null pointer
            [s EXCEPT !.ret = FALSE]
       ELSE [s EXCEPT !.crashed = TRUE]
  ELSE IF s.bones[source].animations[1] = <<>>
  THEN \* source->animations[0]->getRange through a null pointer
       [s EXCEPT !.crashed = TRUE]
  ELSE copyAnimationRange_copy(s, b, source, rangeName, frameOffset,
                               rescaleAsRequired, skel, absent)

\* the tracks bones carry: keys before, inside and after the range "walk",
\* and a track without that range
TrackA ==
  [keys |-> <<[frame |-> 0, value |-> Translation(R(0), R(0), R(0))],
              [frame |-> 5, value |-> Translation(R(2), R(0), R(0))],
              [frame |-> 10, value |-> Translation(R(4), R(2), R(0))],
              [frame |-> 20, value |-> Translation(R(0), R(0), R(6))]>>,
   ranges |-> <<[name |-> "walk", from |-> 5, to |-> 10]>>]
TrackB ==
  [keys |-> <<[frame |-> 0, value |-> Translation(R(1), R(1), R(1))],
              [frame |-> 30, value |-> Translation(R(0), R(2), R(0))]>>,
   ranges |-> <<[name |-> "idle", from |-> 0, to |-> 30]>>]
\* Node::animations of a bone: empty, a null first element, or a track
AnimationLists == {<<>>, << <<>> >>, <<TrackA>>, <<TrackB>>}
\* Bone::length of a bone: as constructed, or set by the loader
Lengths == {-1, 3}
RangeNames == {"walk", "jump"}
FrameOffsets == {100}
\* skelDimensionsRatio and hasSkelDimensionsRatio
SkelDimensionsRatios ==
  {[has |-> FALSE, ratio |-> Vector3(One, One, One)],
   [has |-> TRUE, ratio |-> Vector3(R(2), One, One)]}
\* what getRange hands out for a name the track does not hold
AbsentRanges == {[name |-> "", from |-> 0, to |-> 0]}

\* the chain of three bones of InitBones
Chain ==
  Bone(Bone(Bone([bones |-> <<>>, poseMatrix |-> <<>>, _isDirty |-> FALSE,
                  crashed |-> FALSE, ret |-> NULL],
                 NULL, Translation(R(1), R(0), R(0))),
            1, RotationAxis(Vector3(Zero, Zero, One), 1, Translation(R(1), R(1), R(0)))),
       2, Translation(R(0), R(2), R(1))).bones

\* the chain with animation lists and lengths given to its bones
InitAnimated(lists, lengths) ==
  /\ EngineConstructed
  /\ engine._currentFramebuffer = NULL
  /\ engine._activeTexture = Indeterminate
  /\ env = EnvInit
  /\ sps = <<>>
  /\ ray = <<>>
  /\ \E chain \in {Chain} :
       bones = [i \in DOMAIN chain |->
                  [chain[i] EXCEPT !.animations = lists[i], !.length = lengths[i]]]

\* every combination of tracks on the three bones
InitAnimations ==
  \E a1 \in AnimationLists, a2 \in AnimationLists, a3 \in AnimationLists,
     length \in Lengths :
    InitAnimated(<<a1, a2, a3>>, <<2, 4, length>>)

CopyAnimationRange ==
  /\ CanPose
  /\ \E b \in BoneIds, source \in BoneIds, rangeName \in RangeNames,
        frameOffset \in FrameOffsets, rescaleAsRequired \in BOOLEAN,
        skel \in SkelDimensionsRatios, absent \in AbsentRanges, ub \in UBOutcomes :
       /\ source # b
       /\ bones[source].animations # <<>> => ub = "crash"
       /\ ~rescaleAsRequired => ~skel.has
       /\ \E s \in {copyAnimationRange(BoneWorld, b, source, rangeName, frameOffset,
                                       rescaleAsRequired, skel, absent, ub)} :
            CommitBones(s, "copyAnimationRange",
                        <<b, source, rangeName, frameOffset, rescaleAsRequired, skel>>, 1)

\* copies of animation ranges between the bones of a skeleton
NextAnimation ==
  \/ CopyAnimationRange

SpecAnimation == InitAnimations /\ [][NextAnimation]_vars

(***************************************************************************)
(* Properties of copyAnimationRange.  A step of the operation has          *)
(*   lastOp'.args = <<b, source, rangeName, frameOffset, rescale, skel>>   *)
(* and the tracks before the call are those of  bones .                    *)
(***************************************************************************)
\* the bone  source  has no animation track: no element, or a null first one
NoTrack(bs, source) ==
  bs[source].animations = <<>> \/ bs[source].animations[1] = <<>>

\* the keys of  keys  with  from <= frame <= to , in order
KeysInRange(keys, from, to) ==
  SelectSeq(keys, LAMBDA key : key.frame >= from /\ key.frame <= to)

\* C23: copyAnimationRange returns false, without error and without a change
\* to the keys and ranges of the destination, whenever the source bone has
\* no animation track (an empty list or a null first animation) or its track
\* has no range of the given name.
C23_ReturnsFalse ==
  [][(/\ lastOp'.op = "copyAnimationRange"
      /\ \/ NoTrack(bones, lastOp'.args[2])
         \/ ~HasRange(bones[lastOp'.args[2]].animations[1], lastOp'.args[3]))
     => /\ ~crashed'
        /\ lastOp'.ret = FALSE
        /\ bones'[lastOp'.args[1]].animations = bones[lastOp'.args[1]].animations]_vars

\* C24: when the source track has the named range [from, to], the call
\* appends to the destination track one key per source key with
\* from <= frame <= to, in source order and with the frame moved by
\* frameOffset, copies no other key, leaves the former destination keys and
\* the source keys as they were, creates on the destination a range of that
\* name over [from + frameOffset, to + frameOffset], and returns true.
C24_CopiesRange ==
  [][(/\ lastOp'.op = "copyAnimationRange"
      /\ ~NoTrack(bones, lastOp'.args[2])
      /\ HasRange(bones[lastOp'.args[2]].animations[1], lastOp'.args[3]))
     => LET b == lastOp'.args[1]
            source == lastOp'.args[2]
            rangeName == lastOp'.args[3]
            frameOffset == lastOp'.args[4]
            range == getRange(bones[source].animations[1], rangeName, <<>>)
            copied == KeysInRange(bones[source].animations[1].keys, range.from, range.to)
            before == bones[b].animations[1].keys
            after == bones'[b].animations[1].keys
        IN /\ ~crashed'
           /\ lastOp'.ret = TRUE
           /\ Len(after) = Len(before) + Len(copied)
           /\ SubSeq(after, 1, Len(before)) = before
           /\ \A i \in DOMAIN copied :
                after[Len(before) + i].frame = copied[i].frame + frameOffset
           /\ bones'[source].animations = bones[source].animations
           /\ HasRange(bones'[b].animations[1], rangeName)
           /\ getRange(bones'[b].animations[1], rangeName, <<>>) =
                [name |-> rangeName, from |-> range.from + frameOffset,
                 to |-> range.to + frameOffset]]_vars

\* the same for a destination that has a track and, when the keys are
\* rescaled by the parent's length, a parent
CopiesRangeOntoTrack ==
  [][(/\ lastOp'.op = "copyAnimationRange"
      /\ ~NoTrack(bones, lastOp'.args[2])
      /\ HasRange(bones[lastOp'.args[2]].animations[1], lastOp'.args[3])
      /\ ~NoTrack(bones, lastOp'.args[1])
      /\ ~crashed')
     => LET b == lastOp'.args[1]
            source == lastOp'.args[2]
            range == getRange(bones[source].animations[1], lastOp'.args[3], <<>>)
            copied == KeysInRange(bones[source].animations[1].keys, range.from, range.to)
            before == bones[b].animations[1].keys
            after == bones'[b].animations[1].keys
        IN /\ lastOp'.ret = TRUE
           /\ Len(after) = Len(before) + Len(copied)
           /\ SubSeq(after, 1, Len(before)) = before
           /\ \A i \in DOMAIN copied :
                after[Len(before) + i].frame = copied[i].frame + lastOp'.args[4]
           /\ bones'[source].animations = bones[source].animations]_vars

(***************************************************************************)
(* The hierarchy of bones: bones constructed under the bones of a posed    *)
(* skeleton.                                                               *)
(***************************************************************************)
MaxBones == 4           \* bones of the skeleton

ConstructBone ==
  /\ CanPose
  /\ Len(bones) < MaxBones
  /\ \E parentBone \in BoneIds \cup {NULL}, matrix \in UpdateMatrices :
       \E s \in {Bone(BoneWorld, parentBone, matrix)} :
         CommitBones(s, "Bone", <<parentBone>>, 1)

\* the chain with a track on its first two bones
InitTree == InitAnimated(<<<<TrackA>>, <<TrackB>>, <<>>>>, <<2, 4, -1>>)

\* constructions, poses, recomputes and copies of animation ranges
NextTree ==
  \/ ConstructBone
  \/ UpdateMatrix
  \/ Translate
  \/ SetPosition
  \/ Scale
  \/ Rotate
  \/ CopyAnimationRange
  \/ ComputeAbsoluteTransforms

SpecTree == InitTree /\ [][NextTree]_vars

RECURSIVE ReachesRoot(_, _, _)
\* following  _parent  from  b  ends at a root within  n  steps
ReachesRoot(bs, b, n) ==
  \/ bs[b]._parent = NULL
  \/ n > 0 /\ ReachesRoot(bs, bs[b]._parent, n - 1)

\* the number of times  b  occurs in the child list of  p
ChildOccurrences(bs, p, b) ==
  Cardinality({i \in DOMAIN bs[p].children : bs[p].children[i] = b})

\* parent links and child lists are two entries of the same relation, and
\* the links form a forest
DoubleEntry(bs) ==
  /\ \A b \in DOMAIN bs : bs[b]._parent \in DOMAIN bs \cup {NULL}
  /\ \A p \in DOMAIN bs, b \in DOMAIN bs :
       ChildOccurrences(bs, p, b) = IF bs[b]._parent = p THEN 1 ELSE 0
  /\ \A p \in DOMAIN bs :
       \A i \in DOMAIN bs[p].children : bs[p].children[i] \in DOMAIN bs
  /\ \A b \in DOMAIN bs : ReachesRoot(bs, b, Len(bs))

\* C21: in every state a bone has the parent p exactly when it occurs in the
\* child list of p, and then once; the links form a forest; and no operation
\* other than the construction of a bone (updateMatrix, translate,
\* setPosition, scale, rotate, copyAnimationRange, computeAbsoluteTransforms)
\* changes a child list or a parent link.
C21_DoubleEntry ==
  /\ []DoubleEntry(bones)
  /\ [][lastOp'.op # "Bone" =>
          /\ DOMAIN bones' = DOMAIN bones
          /\ \A b \in DOMAIN bones :
               /\ bones'[b]._parent = bones[b]._parent
               /\ bones'[b].children = bones[b].children]_vars

\* a fourth bone was constructed under the second, which now has two
\* children, and the skeleton was scaled afterwards
C21_Witness ==
  /\ Len(bones) = 4
  /\ bones[4]._parent = 2
  /\ bones[2].children = <<3, 4>>
  /\ lastOp.op = "scale"
  /\ ~crashed

(***************************************************************************)
(* Properties of updateMatrix.                                             *)
(***************************************************************************)
\* what the absolute transform of the bone  b  of  bs  is when it is its
\* local matrix combined with the parent's absolute transform, or with the
\* pose matrix of the skeleton at a root
LocalTimesParent(bs, b, poseMatrix) ==
  IF bs[b]._parent # NULL
  THEN multiply(bs[b]._matrix, bs[bs[b]._parent]._absoluteTransform)
  ELSE IF poseMatrix # <<>> THEN multiply(bs[b]._matrix, poseMatrix)
  ELSE bs[b]._matrix

\* C22: updateMatrix(m, refreshDiff) sets the base and the local matrix of
\* the bone to m and marks the skeleton dirty; with refreshDiff the bone and
\* each of its descendants then has absolute = local x parent's absolute (the
\* pose matrix of the skeleton for a root) and inverted = the inverse of the
\* absolute; without it no absolute or inverted transform of any bone changes.
C22_UpdateMatrix ==
  [][lastOp'.op = "updateMatrix" =>
       /\ \E m \in UpdateMatrices :
            /\ bones'[lastOp'.args[1]]._baseMatrix = m
            /\ bones'[lastOp'.args[1]]._matrix = m
       /\ env'._isDirty
       /\ IF lastOp'.args[2]
          THEN \A d \in DOMAIN bones :
                 (d = lastOp'.args[1] \/ IsDescendant(bones, d, lastOp'.args[1])) =>
                   /\ bones'[d]._absoluteTransform =
                        LocalTimesParent(bones', d, env.poseMatrix)
                   /\ bones'[d]._invertedAbsoluteTransform =
                        invert(bones'[d]._absoluteTransform)
          ELSE \A d \in DOMAIN bones :
                 /\ bones'[d]._absoluteTransform = bones[d]._absoluteTransform
                 /\ bones'[d]._invertedAbsoluteTransform =
                      bones[d]._invertedAbsoluteTransform]_vars

\* what updateMatrix does: the base matrix takes the place of the local one
\* and the pose matrix is not read
BaseTimesParent(bs, b) ==
  IF bs[b]._parent # NULL
  THEN multiply(bs[b]._baseMatrix, bs[bs[b]._parent]._absoluteTransform)
  ELSE bs[b]._baseMatrix

UpdateMatrixRefreshesFromBase ==
  [][lastOp'.op = "updateMatrix" =>
       /\ \E m \in UpdateMatrices :
            /\ bones'[lastOp'.args[1]]._baseMatrix = m
            /\ bones'[lastOp'.args[1]]._matrix = m
       /\ env'._isDirty
       /\ IF lastOp'.args[2]
          THEN \A d \in DOMAIN bones :
                 (d = lastOp'.args[1] \/ IsDescendant(bones, d, lastOp'.args[1])) =>
                   /\ bones'[d]._absoluteTransform = BaseTimesParent(bones', d)
                   /\ bones'[d]._invertedAbsoluteTransform =
                        invert(bones'[d]._absoluteTransform)
          ELSE \A d \in DOMAIN bones :
                 /\ bones'[d]._absoluteTransform = bones[d]._absoluteTransform
                 /\ bones'[d]._invertedAbsoluteTransform =
                      bones[d]._invertedAbsoluteTransform]_vars

(***************************************************************************)
(* The solid particle system (solid_particle_system.cpp).  The object is   *)
(* the record  sps ; its methods are operators from a system to a system.  *)
(* The fields  crashed  and  ret  of the record carry the end of the       *)
(* process and the value returned,  calls  lists the hooks and the mesh    *)
(* updates of the last operation,  facets  the groups <<f, size>> of the   *)
(* last digest, and  ops  counts the operations of the run.  Floats are    *)
(* exact rationals.  Mesh, VertexData, SolidParticle and ModelShape are    *)
(* outside the sources at hand: a source mesh is the record of its vertex  *)
(* streams, a particle the record of the fields the system reads.  No      *)
(* position or vertex function is passed and no particle is rotated or     *)
(* scaled, so that _rotMatrix is the identity; the system is not pickable, *)
(* particle intersections, billboard mode and the bounding box are off.    *)
(***************************************************************************)
SizeBits == 16          \* width of unsigned and size_t in the model
MaxParticles == 4       \* particles of a system
MaxSpsOps == 4          \* operations on a system in a run

\* the value of an unsigned expression
Unsigned(n) == n % (2 ^ SizeBits)

\* source meshes: a quad of two facets with uvs, a coloured triangle, and a
\* strip of four facets
Quad ==
  [positions |-> <<R(0), R(0), R(0),  R(2), R(0), R(0),
                   R(2), R(2), R(0),  R(0), R(2), R(0)>>,
   indices |-> <<0, 1, 2, 0, 2, 3>>,
   uvs |-> <<Zero, Zero, One, Zero, One, One, Zero, One>>,
   colors |-> <<>>]
Triangle ==
  [positions |-> <<R(0), R(0), R(1),  R(3), R(0), R(1),  R(0), R(3), R(1)>>,
   indices |-> <<0, 1, 2>>,
   uvs |-> <<Zero, Zero, One, Zero, Zero, One>>,
   colors |-> <<One, Zero, Zero, One,  Zero, One, Zero, One,  Zero, Zero, One, One>>]
Strip ==
  [positions |-> <<R(0), R(0), R(0),  R(0), R(3), R(0),  R(3), R(0), R(0),
                   R(3), R(3), R(0),  R(6), R(0), R(0),  R(6), R(3), R(0)>>,
   indices |-> <<0, 1, 2, 1, 2, 3, 2, 3, 4, 3, 4, 5>>,
   uvs |-> <<Zero, Zero, Zero, One, One, Zero, One, One, Zero, Zero, Zero, One>>,
   colors |-> <<>>]

\* SolidParticleSystem::SolidParticleSystem
SolidParticleSystem(updatable) ==
  [nbParticles |-> 0,
   recomputeNormals |-> TRUE,
   mesh |-> NULL,
   _index |-> 0,
   _updatable |-> updatable,
   _shapeCounter |-> 0,
   _computeParticleColor |-> TRUE,
   _computeParticleTexture |-> TRUE,
   _computeParticleVertex |-> FALSE,
   particles |-> <<>>,
   _positions |-> <<>>, _indices |-> <<>>, _normals |-> <<>>, _uvs |-> <<>>,
   _colors |-> <<>>,
   _positions32 |-> <<>>, _normals32 |-> <<>>, _fixedNormal32 |-> <<>>,
   _uvs32 |-> <<>>, _colors32 |-> <<>>,
   calls |-> <<>>, facets |-> <<>>, ops |-> 0, crashed |-> FALSE, ret |-> NULL]

\* _posToShape
_posToShape(positions) ==
  [i \in 1..(Len(positions) \div 3) |->
     Vector3(positions[3 * i - 2], positions[3 * i - 1], positions[3 * i])]

\* _uvsToShapeUV
_uvsToShapeUV(uvs) == uvs

\* the coordinates of the vertices of a shape, three per vertex
Flat(shape) ==
  [i \in 1..(3 * Len(shape)) |-> shape[((i - 1) \div 3) + 1][((i - 1) % 3) + 1]]

\* _meshBuilder with the copy as _resetCopy leaves it: positions are the
\* shape's, uvs the mesh's, colours the mesh's or white, indices moved by  p
_meshBuilder(sys, p, shape, meshInd, meshUV, meshCol) ==
  CHOOSE result \in {
    [s EXCEPT
       !._positions = @ \o Flat(shape),
       !._uvs = IF meshUV # <<>>
                THEN @ \o [i \in 1..(2 * Len(shape)) |-> meshUV[i]]
                ELSE @,
       !._colors = @ \o [i \in 1..(4 * Len(shape)) |->
                           IF meshCol # <<>> /\ 4 * ((i - 1) \div 4) + 3 < Len(meshCol)
                           THEN meshCol[i]
                           ELSE One],
       !._indices = @ \o [i \in 1..Len(meshInd) |-> p + meshInd[i]]]
    : s \in {sys}} : TRUE

\* _addParticle: new SolidParticle(idx, idxpos, model, shapeId, idxInShape)
_addParticle(s, idx, idxpos, shape, shapeUV, shapeId, idxInShape) ==
  [s EXCEPT !.particles =
     Append(@, [idx |-> idx, _pos |-> idxpos, _shape |-> shape, _shapeUV |-> shapeUV,
                shapeId |-> shapeId, idxInShape |-> idxInShape,
                isVisible |-> TRUE,
                position |-> Vector3(Zero, Zero, Zero)])]

RECURSIVE addShapeLoop(_, _, _, _, _, _)
\* for (unsigned int i = 0; i < nb; ++i) of addShape, from  i  on
addShapeLoop(sys, mesh, shape, nb, idx, i) ==
  CHOOSE result \in {
    IF i >= nb THEN s
    ELSE addShapeLoop(
           CHOOSE added \in {
             [(IF s._updatable
               THEN _addParticle(built, idx, Len(built._positions), shape,
                                 _uvsToShapeUV(mesh.uvs), s._shapeCounter, i)
               ELSE built)
              EXCEPT !._index = @ + Len(shape)]
             : built \in {_meshBuilder(s, s._index, shape, mesh.indices, mesh.uvs,
                                       mesh.colors)}} : TRUE,
           mesh, shape, nb, idx + 1, i + 1)
    : s \in {sys}} : TRUE

\* SolidParticleSystem::addShape
addShape(sys, mesh, nb) ==
  CHOOSE result \in {
    [s EXCEPT !.nbParticles = @ + nb, !._shapeCounter = @ + 1,
              !.ret = s._shapeCounter, !.calls = <<>>]
    : s \in {addShapeLoop(sys, mesh, _posToShape(mesh.positions), nb,
                          sys.nbParticles, 0)}} : TRUE

\* VertexData::ComputeNormals: one normal per position
ComputeNormals(positions, indices) == [i \in DOMAIN positions |-> One]

\* buildMesh with a plausible fault: the particles of a non-updatable system
\* are kept
buildMesh_keep(sys) ==
  CHOOSE result \in {
    CHOOSE built \in {
      [s EXCEPT !._positions32 = s._positions,
                !._uvs32 = s._uvs,
                !._colors32 = s._colors,
                !._normals32 = normals,
                !._fixedNormal32 = normals,
                !.mesh = 1,
                !._positions = <<>>,
                !._normals = <<>>,
                !._uvs = <<>>,
                !._colors = <<>>,
                !.ret = 1,
                !.calls = <<>>]
      : normals \in {IF s.recomputeNormals
                     THEN ComputeNormals(s._positions, s._indices)
                     ELSE s._normals}} : TRUE
    : s \in {sys}} : TRUE

\* SolidParticleSystem::buildMesh
buildMesh(sys) ==
  CHOOSE result \in {
    CHOOSE built \in {
      [s EXCEPT !._positions32 = s._positions,
                !._uvs32 = s._uvs,
                !._colors32 = s._colors,
                !._normals32 = normals,
                !._fixedNormal32 = normals,
                !.mesh = 1,
                !._positions = <<>>,
                !._normals = <<>>,
                !._uvs = <<>>,
                !._colors = <<>>,
                !.particles = IF s._updatable THEN @ ELSE <<>>,
                !.ret = 1,
                !.calls = <<>>]
      : normals \in {IF s.recomputeNormals
                     THEN ComputeNormals(s._positions, s._indices)
                     ELSE s._normals}} : TRUE
    : s \in {sys}} : TRUE

\* std::round of the quotient of two sizes, the divisor positive
RoundDiv(a, b) == (2 * a + b) \div (2 * b)

\* the smaller of two sizes
Smaller(a, b) == IF a > b THEN b ELSE a

RECURSIVE SumOfShape(_, _, _)
\* barycenter.addInPlace(shape[v]) for the vertices from  v  on
SumOfShape(shape, v, sum) ==
  CHOOSE result \in {
    IF v > Len(shape) THEN acc
    ELSE SumOfShape(shape, v + 1,
                    Vector3(RAdd(acc[1], shape[v][1]), RAdd(acc[2], shape[v][2]),
                            RAdd(acc[3], shape[v][3])))
    : acc \in {sum}} : TRUE

\* the positions and the uvs a group of facets reads through the indices
\* j = 3 f .. 3 (f + size) - 1  of the source mesh
FacetPos(mesh, f, size) ==
  [n \in 1..(9 * size) |->
     mesh.positions[3 * mesh.indices[3 * f + ((n - 1) \div 3) + 1] + ((n - 1) % 3) + 1]]
FacetUV(mesh, f, size) ==
  IF mesh.uvs = <<>> THEN <<>>
  ELSE [n \in 1..(6 * size) |->
          mesh.uvs[2 * mesh.indices[3 * f + ((n - 1) \div 2) + 1] + ((n - 1) % 2) + 1]]

\* one pass of the while loop of digest over the group of  size  facets from
\* f  on: the shape centred on the barycenter, the particle, the counters
digestGroup(sys, mesh, f, size, barycenter) ==
  CHOOSE result \in {
    CHOOSE centred \in {
      [(IF s.nbParticles + 1 > Len(s.particles) + 1
        THEN \* particles[nbParticles] lies beyond the particle just added
             [s EXCEPT !.crashed = TRUE]
        ELSE [_addParticle(s, s.nbParticles, Len(s._positions),
                           [v \in DOMAIN shape |->
                              Vector3(RSub(shape[v][1], barycenter[1]),
                                      RSub(shape[v][2], barycenter[2]),
                                      RSub(shape[v][3], barycenter[3]))],
                           _uvsToShapeUV(FacetUV(mesh, f, size)), s._shapeCounter, 0)
              EXCEPT !.particles[s.nbParticles + 1].position = barycenter,
                     !._index = @ + Len(shape),
                     !.nbParticles = @ + 1,
                     !._shapeCounter = @ + 1])
       EXCEPT !.facets = Append(@, <<f, size>>)]
      : shape \in {_posToShape(FacetPos(mesh, f, size))}} : TRUE
    : s \in {sys}} : TRUE

\* the barycenter after the pass over the group: the sum of the barycenter
\* before and of the vertices, divided by their number
Barycenter(mesh, f, size, barycenter) ==
  CHOOSE result \in {
    Vector3(RDiv(sum[1], R(3 * size)), RDiv(sum[2], R(3 * size)),
            RDiv(sum[3], R(3 * size)))
    : sum \in {SumOfShape(_posToShape(FacetPos(mesh, f, size)), 1, barycenter)}} : TRUE

RECURSIVE digestLoop(_, _, _, _, _, _, _, _)
\* while (f < totalFacets) of digest, from the facet  f  on;  jitters[k]  is
\* floor((1 + delta) * Math::random()) in the k-th pass
digestLoop(sys, mesh, totalFacets, sizeO, jitters, k, f, barycenter) ==
  CHOOSE result \in {
    IF f >= totalFacets \/ s.crashed THEN s
    ELSE CHOOSE next \in {
           IF size = 0
           THEN \* a pass over no facet adds a particle and leaves f where it
                \* is: with the same size in every later pass the loop does
                \* not end, it adds particles until the memory is exhausted
                [s EXCEPT !.crashed = TRUE, !.facets = Append(@, <<f, 0>>)]
           ELSE IF 3 * (f + size) > Len(mesh.indices)
           THEN \* meshInd[j] is read beyond the indices of the mesh
                [s EXCEPT !.crashed = TRUE, !.facets = Append(@, <<f, size>>)]
           ELSE CHOOSE moved \in {
                  digestLoop(digestGroup(s, mesh, f, size, centre), mesh, totalFacets,
                             sizeO, jitters, k + 1, f + size, centre)
                  : centre \in {Barycenter(mesh, f, size, barycenter)}} : TRUE
           : size \in {IF f > Unsigned(totalFacets - (sizeO + jitters[k]))
                       THEN totalFacets - f
                       ELSE sizeO + jitters[k]}} : TRUE
    : s \in {sys}} : TRUE

\* SolidParticleSystem::digest;  ub  is what the build does with the read of
\* the normals through  mesh  while no mesh is built
digest(sys, mesh, facetNb, number, delta, jitters, ub) ==
  IF sys.mesh = NULL /\ ub = "crash"
  THEN [sys EXCEPT !.crashed = TRUE, !.calls = <<>>, !.facets = <<>>]
  ELSE CHOOSE result \in {
         [digestLoop([sys EXCEPT !.calls = <<>>, !.facets = <<>>], mesh, totalFacets,
                     IF number # 0
                     THEN RoundDiv(totalFacets, Smaller(number, totalFacets))
                     ELSE Smaller(facetNb, totalFacets),
                     IF number # 0 THEN [k \in DOMAIN jitters |-> 0] ELSE jitters,
                     1, 0, Vector3(Zero, Zero, Zero))
          EXCEPT !.ret = 1]
         : totalFacets \in {Len(mesh.indices) \div 3}} : TRUE

(***************************************************************************)
(* Operations on the solid particle system.  The field  requested  of the  *)
(* state lists, for each particle asked for by addShape and digest so far, *)
(* the number of vertices of its shape.                                    *)
(***************************************************************************)
\* the source meshes by name
SourceMesh(name) ==
  CASE name = "Quad" -> Quad
    [] name = "Triangle" -> Triangle
    [] name = "Strip" -> Strip
ShapeMeshes == {"Quad", "Triangle"}
DigestMeshes == {"Quad", "Strip"}

\* a system as constructed, updatable or not
InitParticles ==
  /\ EngineConstructed
  /\ engine._currentFramebuffer = NULL
  /\ engine._activeTexture = Indeterminate
  /\ env = EnvInit
  /\ bones = <<>>
  /\ \E updatable \in BOOLEAN :
       sps = [system |-> SolidParticleSystem(updatable), requested |-> <<>>]
  /\ ray = <<>>

\* the system  s  becomes the state: the operation  op(args)  has returned
CommitSps(s, op, args, requested) ==
  /\ sps' = [system |-> [s EXCEPT !.ops = @ + 1], requested |-> requested]
  /\ crashed' = s.crashed
  /\ lastOp' = [op |-> op, args |-> args, ret |-> s.ret, thrown |-> FALSE]
  /\ UNCHANGED <<engine, gl, buffers, textures, bindRun, lastViewport, env, bones, ray>>

CanSps == ~crashed /\ sps.system.ops < MaxSpsOps

AddShape ==
  /\ CanSps
  /\ \E name \in ShapeMeshes, nb \in 1..2 :
       /\ sps.system.nbParticles + nb <= MaxParticles
       /\ \E mesh \in {SourceMesh(name)} :
            \E s \in {addShape(sps.system, mesh, nb)} :
              CommitSps(s, "addShape", <<name, nb>>,
                        sps.requested \o [i \in 1..nb |-> Len(mesh.positions) \div 3])

Digest ==
  /\ CanSps
  /\ \E name \in DigestMeshes, facetNb \in 0..2, number \in 0..3, delta \in 0..1,
        ub \in UBOutcomes :
       \E mesh \in {SourceMesh(name)} :
         /\ sps.system.nbParticles + (Len(mesh.indices) \div 3) <= MaxParticles
         /\ number # 0 => facetNb = 1 /\ delta = 0
         /\ facetNb = 0 => delta = 0
         /\ sps.system.mesh # NULL => ub = "crash"
         /\ \E jitters \in [1..(Len(mesh.indices) \div 3) -> 0..delta] :
              \E s \in {digest(sps.system, mesh, facetNb, number, delta, jitters, ub)} :
                CommitSps(s, "digest", <<name, facetNb, number, delta, jitters, ub>>,
                          sps.requested \o
                            [k \in DOMAIN s.facets |-> 3 * s.facets[k][2]])

BuildMesh ==
  /\ CanSps
  /\ \E s \in {buildMesh(sps.system)} :
       CommitSps(s, "buildMesh", <<>>, sps.requested)

\* the array with  values  written from the 0-based index  offset  on
WriteAt(array, offset, values) ==
  [i \in DOMAIN array |->
     IF offset < i /\ i <= offset + Len(values) THEN values[i - offset] ELSE array[i]]

RECURSIVE rebuildParticles(_, _)
\* for (auto& particle : particles) _rebuildParticle(particle), from the
\* particle  p  on (0-based): the shape is written at _pos + pt * 3 and the
\* particle's position is reset
rebuildParticles(sys, p) ==
  CHOOSE result \in {
    IF p >= Len(s.particles) \/ s.crashed THEN s
    ELSE rebuildParticles(
           CHOOSE rebuilt \in {
             IF particle._pos + 3 * Len(particle._shape) > Len(s._positions32)
             THEN \* _positions32[particle->_pos + pt * 3] beyond the array
                  [s EXCEPT !.crashed = TRUE]
             ELSE [s EXCEPT !._positions32 = WriteAt(@, particle._pos, Flat(particle._shape)),
                            !.particles[p + 1].position = Vector3(Zero, Zero, Zero)]
             : particle \in {s.particles[p + 1]}} : TRUE,
           p + 1)
    : s \in {sys}} : TRUE

\* SolidParticleSystem::rebuildMesh
rebuildMesh(sys) ==
  CHOOSE result \in {
    IF s.crashed THEN s
    ELSE IF s.mesh = NULL
    THEN \* mesh->updateVerticesData through a null mesh
         [s EXCEPT !.crashed = TRUE]
    ELSE [s EXCEPT !.calls = <<[call |-> "updateVerticesData:Position", start |-> 0,
                                end |-> 0]>>]
    : s \in {rebuildParticles([sys EXCEPT !.calls = <<>>], 0)}} : TRUE

\* _camera->position
CameraPosition == Vector3(R(7), R(8), R(9))

\* the shape of a particle moved to the particle's position: what the vertex
\* loop of setParticles writes for a visible particle that is not rotated
PlacedShape(particle) ==
  [v \in DOMAIN particle._shape |->
     Vector3(RAdd(particle.position[1], particle._shape[v][1]),
             RAdd(particle.position[2], particle._shape[v][2]),
             RAdd(particle.position[3], particle._shape[v][3]))]

\* one pass of the particle loop of setParticles over  particle , whose
\* vertices go to the positions from  index  on, to the colours from
\* colorIndex  on and to the uvs from  uvIndex  on
setParticle(sys, particle, index, colorIndex, uvIndex) ==
  CHOOSE result \in {
    IF \/ index + 3 * n > Len(s._positions32)
       \/ index + 3 * n > Len(s._normals32)
       \/ index + 3 * n > Len(s._fixedNormal32)
       \/ s._computeParticleColor /\ colorIndex + 4 * n > Len(s._colors32)
       \/ s._computeParticleTexture /\ uvIndex + 2 * n > Len(s._uvs32)
       \/ s._computeParticleTexture /\ 2 * n > Len(particle._shapeUV)
    THEN \* a read or a write beyond one of the arrays
         [s EXCEPT !.crashed = TRUE]
    ELSE [s EXCEPT
            !._positions32 =
              WriteAt(@, index,
                      IF particle.isVisible THEN Flat(PlacedShape(particle))
                      ELSE Flat([v \in 1..n |-> CameraPosition])),
            !._normals32 =
              WriteAt(@, index,
                      IF particle.isVisible
                      THEN SubSeq(s._fixedNormal32, index + 1, index + 3 * n)
                      ELSE [i \in 1..(3 * n) |-> Zero]),
            !._colors32 =
              IF s._computeParticleColor
              THEN WriteAt(@, colorIndex, [i \in 1..(4 * n) |-> One])
              ELSE @,
            !._uvs32 =
              IF s._computeParticleTexture
              THEN WriteAt(@, uvIndex, SubSeq(particle._shapeUV, 1, 2 * n))
              ELSE @]
    : s \in {sys}, n \in {Len(particle._shape)}} : TRUE

\* an entry of  calls : a hook or a mesh update with its two arguments
Call(call, start, end) == [call |-> call, start |-> start, end |-> end]

RECURSIVE setParticlesLoop(_, _, _, _, _, _)
\* for (unsigned int p = start; p <= _end; p++) of setParticles, from  p  on
setParticlesLoop(sys, p, _end, index, colorIndex, uvIndex) ==
  CHOOSE result \in {
    IF p > _end \/ s.crashed THEN s
    ELSE IF p >= Len(s.particles)
    THEN \* particles[p] beyond the particles
         [s EXCEPT !.crashed = TRUE]
    ELSE CHOOSE next \in {
           setParticlesLoop(
             setParticle([s EXCEPT !.calls = Append(@, Call("updateParticle", p, p))],
                         s.particles[p + 1], index, colorIndex, uvIndex),
             p + 1, _end, index + 3 * n, colorIndex + 4 * n, uvIndex + 2 * n)
           : n \in {Len(s.particles[p + 1]._shape)}} : TRUE
    : s \in {sys}} : TRUE

\* the GPU buffer updates of setParticles
updateVerticesData(sys) ==
  CHOOSE result \in {
    IF s.crashed THEN s
    ELSE IF s.mesh = NULL
    THEN [s EXCEPT !.crashed = TRUE]
    ELSE [s EXCEPT !.calls =
            @ \o (IF s._computeParticleColor
                  THEN <<Call("updateVerticesData:Color", 0, 0)>> ELSE <<>>)
              \o (IF s._computeParticleTexture
                  THEN <<Call("updateVerticesData:UV", 0, 0)>> ELSE <<>>)
              \o <<Call("updateVerticesData:Position", 0, 0),
                   Call("updateVerticesData:Normal", 0, 0)>>]
    : s \in {sys}} : TRUE

\* SolidParticleSystem::setParticles
setParticles(sys, start, end, update) ==
  CHOOSE result \in {
    IF ~s._updatable THEN s
    ELSE CHOOSE done \in {
           IF looped.crashed THEN looped
           ELSE [looped EXCEPT !.calls =
                   Append(@, Call("afterUpdateParticles", start,
                                  Smaller(_end, Unsigned(s.nbParticles - 1))))]
           : looped \in {
               CHOOSE updated \in {
                 IF update THEN updateVerticesData(passed) ELSE passed
                 : passed \in {
                     setParticlesLoop(
                       [s EXCEPT !.calls = <<Call("beforeUpdateParticles", start, _end)>>],
                       start, Smaller(_end, Unsigned(s.nbParticles - 1)), 0, 0, 0)}} : TRUE}
           } : TRUE
    : s \in {[sys EXCEPT !.calls = <<>>]},
      _end \in {IF end < start THEN Unsigned(sys.nbParticles - 1) ELSE end}} : TRUE

RebuildMesh ==
  /\ CanSps
  /\ \E s \in {rebuildMesh(sps.system)} :
       CommitSps(s, "rebuildMesh", <<>>, sps.requested)

\* the client hides or shows a particle: particles[p]->isVisible = visible
SetVisible ==
  /\ CanSps
  /\ \E p \in DOMAIN sps.system.particles, visible \in BOOLEAN :
       /\ sps.system.particles[p].isVisible # visible
       /\ CommitSps([sps.system EXCEPT !.particles[p].isVisible = visible,
                                       !.calls = <<>>],
                    "isVisible", <<p - 1, visible>>, sps.requested)

SetParticles ==
  /\ CanSps
  /\ \E start \in 0..1, end \in 0..2, update \in BOOLEAN :
       \E s \in {setParticles(sps.system, start, end, update)} :
         CommitSps(s, "setParticles", <<start, end, update>>, sps.requested)

\* the building of a system
NextBuild ==
  \/ AddShape
  \/ Digest
  \/ BuildMesh
  \/ RebuildMesh

SpecBuild == InitParticles /\ [][NextBuild]_vars

\* the updates of a built system
NextUpdate ==
  \/ AddShape
  \/ Digest
  \/ BuildMesh
  \/ SetVisible
  \/ SetParticles

SpecUpdate == InitParticles /\ [][NextUpdate]_vars

(***************************************************************************)
(* Properties of addShape, digest and buildMesh.                           *)
(***************************************************************************)
RECURSIVE SumSeq(_)
\* the sum of a sequence of numbers
SumSeq(q) == IF q = <<>> THEN 0 ELSE Head(q) + SumSeq(Tail(q))

\* C25: after any sequence of addShape and digest followed by buildMesh,
\* nbParticles is the number of particles asked for, the flat position array
\* holds three floats and the flat colour array four floats per vertex of the
\* shapes of these particles (two shapes of four vertices: 2 particles, 24
\* positions).
C25_BuiltLengths ==
  [][(lastOp'.op = "buildMesh" /\ sps.system.mesh = NULL /\ ~crashed') =>
       /\ sps'.system.nbParticles = Len(sps.requested)
       /\ Len(sps'.system._positions32) = 3 * SumSeq(sps.requested)
       /\ Len(sps'.system._colors32) = 4 * SumSeq(sps.requested)]_vars

\* the same for the systems no digest has added a particle to
BuiltLengthsOfShapes ==
  [][(/\ lastOp'.op = "buildMesh"
      /\ sps.system.mesh = NULL
      /\ sps.system.facets = <<>>
      /\ ~crashed') =>
       /\ sps'.system.nbParticles = Len(sps.requested)
       /\ Len(sps'.system._positions32) = 3 * SumSeq(sps.requested)
       /\ Len(sps'.system._colors32) = 4 * SumSeq(sps.requested)]_vars

\* two quads were added and the mesh built: 2 particles and 24 positions
TwoQuadsBuilt ==
  /\ lastOp.op = "buildMesh"
  /\ sps.requested = <<4, 4>>
  /\ sps.system.nbParticles = 2
  /\ Len(sps.system._positions32) = 24

\* the groups <<f, size>> of a digest partition the facets of the mesh:
\* contiguous from facet 0, none empty, none beyond the indices of the mesh,
\* their sizes summing to the number of facets
Partition(facets, mesh) ==
  /\ \A k \in DOMAIN facets :
       /\ facets[k][2] > 0
       /\ facets[k][1] = IF k = 1 THEN 0 ELSE facets[k - 1][1] + facets[k - 1][2]
       /\ 3 * (facets[k][1] + facets[k][2]) <= Len(mesh.indices)
  /\ SumSeq([k \in DOMAIN facets |-> facets[k][2]]) = Len(mesh.indices) \div 3

\* C30: for every facetNb, number, delta and outcome of the jitter, digest
\* partitions the facets of the mesh into contiguous, non-empty, pairwise
\* disjoint groups whose sizes sum to the number of facets, reads no index
\* beyond the index array, and makes one particle per group.  (A step of
\* digest has lastOp'.args = <<name, facetNb, number, delta, jitters, ub>>;
\* the calls that end at the read of the normals through a null mesh are
\* left out.)
C30_DigestPartitions ==
  [][(/\ lastOp'.op = "digest"
      /\ (sps.system.mesh # NULL \/ lastOp'.args[6] = "returns")) =>
       /\ ~crashed'
       /\ Partition(sps'.system.facets, SourceMesh(lastOp'.args[1]))
       /\ sps'.system.nbParticles = sps.system.nbParticles + Len(sps'.system.facets)
       /\ Len(sps'.system.particles) =
            Len(sps.system.particles) + Len(sps'.system.facets)]_vars

\* the same for the calls with facetNb >= 1 and without jitter on a system
\* that holds an object for each of its particles
DigestPartitionsWithoutJitter ==
  [][(/\ lastOp'.op = "digest"
      /\ (sps.system.mesh # NULL \/ lastOp'.args[6] = "returns")
      /\ lastOp'.args[2] >= 1
      /\ lastOp'.args[4] = 0
      /\ sps.system.nbParticles = Len(sps.system.particles)) =>
       /\ ~crashed'
       /\ Partition(sps'.system.facets, SourceMesh(lastOp'.args[1]))
       /\ sps'.system.nbParticles = sps.system.nbParticles + Len(sps'.system.facets)
       /\ Len(sps'.system.particles) =
            Len(sps.system.particles) + Len(sps'.system.facets)]_vars

\* the 0-based offset of the slice of the k-th particle (k from 1) in the
\* flat position array: three floats per vertex of the particles before it
SliceOffset(particles, k) ==
  3 * SumSeq([j \in 1..(k - 1) |-> Len(particles[j]._shape)])

\* C26: the position offset of every particle is three times the number of
\* vertices of the particles before it, so that the slices are disjoint, and
\* every index offset + 3 pt + c that _rebuildParticle and rebuildMesh use
\* lies inside the particle's slice and inside the flat array.
C26_Slices ==
  [][(lastOp'.op = "buildMesh" /\ sps.system.mesh = NULL /\ ~crashed') =>
       \A k \in DOMAIN sps'.system.particles :
         /\ sps'.system.particles[k]._pos = SliceOffset(sps'.system.particles, k)
         /\ sps'.system.particles[k]._pos + 3 * Len(sps'.system.particles[k]._shape)
              <= Len(sps'.system._positions32)]_vars

\* what addShape stores: the offset of the end of the slice
SlicesEndAtOffset ==
  [][(/\ lastOp'.op = "buildMesh"
      /\ sps.system.mesh = NULL
      /\ sps.system.facets = <<>>
      /\ ~crashed') =>
       \A k \in DOMAIN sps'.system.particles :
         sps'.system.particles[k]._pos = SliceOffset(sps'.system.particles, k + 1)]_vars

\* the flat arrays of the system are those of its particles: the mesh is
\* built and holds three positions and normals per vertex of the particles
Built(s) ==
  /\ s.mesh # NULL
  /\ s.particles # <<>>
  /\ Len(s._positions32) = SliceOffset(s.particles, Len(s.particles) + 1)
  /\ Len(s._normals32) = Len(s._positions32)

\* the last particle (0-based) a call of setParticles(start, end) works on
EffectiveEnd(s, start, end) ==
  IF end < start \/ end > s.nbParticles - 1 THEN s.nbParticles - 1 ELSE end

\* the slice of the k-th particle in the flat array  array
Slice(s, array, k) ==
  SubSeq(array, SliceOffset(s.particles, k) + 1, SliceOffset(s.particles, k + 1))

\* a call of setParticles placed the hidden particles of its range at the
\* camera and kept the lengths of the flat arrays and the indices
HiddenAtCamera(before, after, start, end) ==
  /\ \A k \in DOMAIN before.particles :
       (/\ k - 1 >= start
        /\ k - 1 <= EffectiveEnd(before, start, end)
        /\ ~before.particles[k].isVisible) =>
         /\ Slice(before, after._positions32, k) =
              Flat([v \in DOMAIN before.particles[k]._shape |-> CameraPosition])
         /\ \A i \in DOMAIN Slice(before, after._normals32, k) :
              Slice(before, after._normals32, k)[i] = Zero
  /\ Len(after._positions32) = Len(before._positions32)
  /\ Len(after._normals32) = Len(before._normals32)
  /\ Len(after._colors32) = Len(before._colors32)
  /\ Len(after._uvs32) = Len(before._uvs32)
  /\ after._indices = before._indices

\* C27: setParticles with update = true writes the camera's position into
\* every vertex of the slice of a particle that is not visible, zeroes the
\* normals of that slice, and changes neither the length of a flat array nor
\* the index array.
C27_HiddenAtCamera ==
  [][(/\ lastOp'.op = "setParticles"
      /\ lastOp'.args[3]
      /\ sps.system._updatable
      /\ Built(sps.system)) =>
       /\ ~crashed'
       /\ HiddenAtCamera(sps.system, sps'.system, lastOp'.args[1], lastOp'.args[2])]_vars

\* the same for the calls that start at the first particle
HiddenAtCameraFromFirst ==
  [][(/\ lastOp'.op = "setParticles"
      /\ lastOp'.args[3]
      /\ lastOp'.args[1] = 0
      /\ sps.system._updatable
      /\ Built(sps.system)) =>
       /\ ~crashed'
       /\ HiddenAtCamera(sps.system, sps'.system, lastOp'.args[1], lastOp'.args[2])]_vars

\* the calls of a pass of setParticles(start, end, update) whose hooks both
\* receive (start, last): the before hook, the particles in ascending order,
\* the buffer updates, the after hook
Pass(s, start, end, update, last) ==
  <<Call("beforeUpdateParticles", start, last)>>
    \o [i \in 1..(IF EffectiveEnd(s, start, end) >= start
                  THEN EffectiveEnd(s, start, end) - start + 1 ELSE 0) |->
          Call("updateParticle", start + i - 1, start + i - 1)]
    \o (IF update
        THEN <<Call("updateVerticesData:Color", 0, 0), Call("updateVerticesData:UV", 0, 0),
               Call("updateVerticesData:Position", 0, 0),
               Call("updateVerticesData:Normal", 0, 0)>>
        ELSE <<>>)
    \o <<Call("afterUpdateParticles", start, last)>>

\* C28: a call of setParticles on an updatable system invokes
\* beforeUpdateParticles once before any work on a particle, updateParticle
\* once for each index of the effective range in ascending order, and
\* afterUpdateParticles once after all particles and after the GPU buffer
\* updates; both hooks receive the same (start, end).
C28_HookOrder ==
  (/\ lastOp.op = "setParticles"
   /\ sps.system._updatable
   /\ Built(sps.system)) =>
    /\ ~crashed
    /\ \E last \in 0..(2 ^ SizeBits) :
         sps.system.calls =
           Pass(sps.system, lastOp.args[1], lastOp.args[2], lastOp.args[3], last)

\* the order of the calls alone: the hooks bracket the particles and the
\* buffer updates, whatever end they receive
HooksBracketPass ==
  (/\ lastOp.op = "setParticles"
   /\ sps.system._updatable
   /\ Built(sps.system)) =>
    /\ ~crashed
    /\ \E last \in 0..MaxParticles :
         /\ SubSeq(sps.system.calls, 1, Len(sps.system.calls) - 1) =
              SubSeq(Pass(sps.system, lastOp.args[1], lastOp.args[2], lastOp.args[3], last),
                     1, Len(sps.system.calls) - 1)
         /\ sps.system.calls[Len(sps.system.calls)].call = "afterUpdateParticles"

\* C29: after buildMesh the queued arrays are empty and the baked flat
\* arrays hold what they held; a non-updatable system then has no particle
\* object, and a later setParticles on it changes no buffer and invokes no
\* hook; an updatable system holds one object per particle, nbParticles of
\* them, whatever mix of addShape and digest built it.
C29_BuildMeshFreezes ==
  [][/\ (lastOp'.op = "buildMesh" /\ ~crashed') =>
          /\ sps'.system._positions = <<>>
          /\ sps'.system._normals = <<>>
          /\ sps'.system._uvs = <<>>
          /\ sps'.system._colors = <<>>
          /\ sps'.system._positions32 = sps.system._positions
          /\ sps'.system._uvs32 = sps.system._uvs
          /\ sps'.system._colors32 = sps.system._colors
          /\ Len(sps'.system._normals32) = Len(sps.system._positions)
          /\ IF sps.system._updatable
             THEN Len(sps'.system.particles) = sps'.system.nbParticles
             ELSE sps'.system.particles = <<>>
     /\ (lastOp'.op = "setParticles" /\ ~sps.system._updatable) =>
          /\ ~crashed'
          /\ sps'.system.calls = <<>>
          /\ sps'.system._positions32 = sps.system._positions32
          /\ sps'.system._normals32 = sps.system._normals32
          /\ sps'.system._uvs32 = sps.system._uvs32
          /\ sps'.system._colors32 = sps.system._colors32
          /\ sps'.system._indices = sps.system._indices]_vars

\* a non-updatable system that digest and addShape gave particles to was
\* built, lost its particle objects and went through setParticles
C29_Witness ==
  /\ lastOp.op = "setParticles"
  /\ lastOp.args[3]
  /\ ~sps.system._updatable
  /\ sps.system.mesh # NULL
  /\ sps.system.facets # <<>>
  /\ sps.system.nbParticles >= 2
  /\ sps.system.particles = <<>>
  /\ Len(sps.system._positions32) > 0
  /\ ~crashed

(***************************************************************************)
(* Rays.  A Ray is the record  ray.ray ; intersectsBoxMinMax and           *)
(* intersectsTriangle are operators from a ray and its arguments to the    *)
(* ray (with its scratch vectors) and the returned value.  A null          *)
(* IntersectionInfo is <<>>.                                               *)
(***************************************************************************)

MaxRayOps == 2          \* queries on a ray in a run

\* a < b  and  a <= b  on rationals (denominators are positive, or 0 for an
\* infinity)
RLess(a, b) == a[1] * b[2] < b[1] * a[2]
RLessEq(a, b) == ~RLess(b, a)
RAbs(a) == IF a[1] < 0 THEN <<-a[1], a[2]>> ELSE a
RMax(a, b) == IF RLess(a, b) THEN b ELSE a
RMin(a, b) == IF RLess(b, a) THEN b ELSE a

\* std::numeric_limits<float>::max(): beyond every distance that the rays
\* and boxes drawn below give
FloatMax == R(2 ^ 24)
Infinity == <<1, 0>>
\* the threshold 0.0000001f of intersectsBoxMinMax
DirectionEpsilon == <<1, 10000000>>

\* Vector3::subtractToRef, Vector3::Dot, Vector3::CrossToRef
subtract(a, b) == <<RSub(a[1], b[1]), RSub(a[2], b[2]), RSub(a[3], b[3])>>
Dot(a, b) == RAdd(RAdd(RMul(a[1], b[1]), RMul(a[2], b[2])), RMul(a[3], b[3]))
Cross(a, b) ==
  <<RSub(RMul(a[2], b[3]), RMul(a[3], b[2])),
    RSub(RMul(a[3], b[1]), RMul(a[1], b[3])),
    RSub(RMul(a[1], b[2]), RMul(a[2], b[1]))>>

\* Ray::Ray(origin, direction, length)
Ray(_origin, _direction, _length) ==
  [origin |-> _origin, direction |-> _direction, length |-> _length,
   _vectorsSet |-> FALSE, _edge1 |-> <<>>, _edge2 |-> <<>>, _pvec |-> <<>>,
   _tvec |-> <<>>, _qvec |-> <<>>]

\* one axis of intersectsBoxMinMax on the running interval [d, maxValue]:
\* the interval after the axis, or ok = FALSE where the code returns false
slabAxis(interval, o, dir, minimum, maximum) ==
  CHOOSE result \in {
    IF ~interval.ok THEN interval
    ELSE IF RLess(RAbs(dir), DirectionEpsilon)
    THEN IF RLess(o, minimum) \/ RLess(maximum, o)
         THEN [interval EXCEPT !.ok = FALSE]
         ELSE interval
    ELSE CHOOSE after \in {
           IF RLess(maxValue, d)
           THEN [ok |-> FALSE, d |-> d, maxValue |-> maxValue]
           ELSE [ok |-> TRUE, d |-> d, maxValue |-> maxValue]
           : d \in {RMax(IF RLess(max, min) THEN max ELSE min, interval.d)},
             maxValue \in {RMin(IF RLess(max, min) THEN min ELSE max, interval.maxValue)}
           } : TRUE
    : inv \in {IF RLess(RAbs(dir), DirectionEpsilon) THEN Zero ELSE RDiv(One, dir)},
      min \in {IF RLess(RAbs(dir), DirectionEpsilon) THEN Zero
               ELSE RMul(RSub(minimum, o), RDiv(One, dir))},
      max \in {IF RLess(RAbs(dir), DirectionEpsilon) THEN Zero
               ELSE CHOOSE m \in {IF x = <<-1, 0>> THEN Infinity ELSE x
                                  : x \in {RMul(RSub(maximum, o), RDiv(One, dir))}} : TRUE}
    } : TRUE

\* intersectsBoxMinMax with a plausible fault: the z axis is not tested
intersectsBoxMinMax_xy(r, minimum, maximum) ==
  slabAxis(slabAxis([ok |-> TRUE, d |-> Zero, maxValue |-> FloatMax],
                    r.origin[1], r.direction[1], minimum[1], maximum[1]),
           r.origin[2], r.direction[2], minimum[2], maximum[2]).ok

\* Ray::intersectsBoxMinMax
intersectsBoxMinMax(r, minimum, maximum) ==
  slabAxis(slabAxis(slabAxis([ok |-> TRUE, d |-> Zero, maxValue |-> FloatMax],
                             r.origin[1], r.direction[1], minimum[1], maximum[1]),
                    r.origin[2], r.direction[2], minimum[2], maximum[2]),
           r.origin[3], r.direction[3], minimum[3], maximum[3]).ok

\* intersectsTriangle with a plausible fault: u + v is not tested
intersectsTriangle_uv(r, vertex0, vertex1, vertex2) ==
  CHOOSE result \in {
    CHOOSE afterDet \in {
      IF almost_equal(det, Zero)
      THEN [ray |-> [set EXCEPT !._pvec = _pvec], ret |-> <<>>]
      ELSE CHOOSE afterU \in {
             IF RLess(bu, Zero) \/ RLess(One, bu)
             THEN [ray |-> [set EXCEPT !._pvec = _pvec, !._tvec = _tvec], ret |-> <<>>]
             ELSE CHOOSE afterV \in {
                    IF RLess(bv, Zero)
                    THEN [ray |-> done, ret |-> <<>>]
                    ELSE IF RLess(r.length, distance)
                    THEN [ray |-> done, ret |-> <<>>]
                    ELSE [ray |-> done,
                          ret |-> [bu |-> bu, bv |-> bv, distance |-> distance]]
                    : _qvec \in {Cross(_tvec, set._edge1)},
                      bv \in {RMul(Dot(r.direction, Cross(_tvec, set._edge1)), invdet)},
                      distance \in {RMul(Dot(set._edge2, Cross(_tvec, set._edge1)), invdet)},
                      done \in {[set EXCEPT !._pvec = _pvec, !._tvec = _tvec,
                                            !._qvec = Cross(_tvec, set._edge1)]}
                    } : TRUE
             : invdet \in {RDiv(One, det)},
               _tvec \in {subtract(r.origin, vertex0)},
               bu \in {RMul(Dot(subtract(r.origin, vertex0), _pvec), RDiv(One, det))}
             } : TRUE
      : _pvec \in {Cross(r.direction, set._edge2)},
        det \in {Dot(set._edge1, Cross(r.direction, set._edge2))}
      } : TRUE
    : set \in {[r EXCEPT !._vectorsSet = TRUE,
                         !._edge1 = subtract(vertex1, vertex0),
                         !._edge2 = subtract(vertex2, vertex0),
                         !._pvec = IF r._vectorsSet THEN @ ELSE <<Zero, Zero, Zero>>,
                         !._tvec = IF r._vectorsSet THEN @ ELSE <<Zero, Zero, Zero>>,
                         !._qvec = IF r._vectorsSet THEN @ ELSE <<Zero, Zero, Zero>>]}
    } : TRUE

\* Ray::intersectsTriangle: the ray with its scratch vectors and the
\* returned IntersectionInfo (bu, bv, distance), or <<>>
intersectsTriangle(r, vertex0, vertex1, vertex2) ==
  CHOOSE result \in {
    CHOOSE afterDet \in {
      IF almost_equal(det, Zero)
      THEN [ray |-> [set EXCEPT !._pvec = _pvec], ret |-> <<>>]
      ELSE CHOOSE afterU \in {
             IF RLess(bu, Zero) \/ RLess(One, bu)
             THEN [ray |-> [set EXCEPT !._pvec = _pvec, !._tvec = _tvec], ret |-> <<>>]
             ELSE CHOOSE afterV \in {
                    IF RLess(bv, Zero) \/ RLess(One, RAdd(bu, bv))
                    THEN [ray |-> done, ret |-> <<>>]
                    ELSE IF RLess(r.length, distance)
                    THEN [ray |-> done, ret |-> <<>>]
                    ELSE [ray |-> done,
                          ret |-> [bu |-> bu, bv |-> bv, distance |-> distance]]
                    : _qvec \in {Cross(_tvec, set._edge1)},
                      bv \in {RMul(Dot(r.direction, Cross(_tvec, set._edge1)), invdet)},
                      distance \in {RMul(Dot(set._edge2, Cross(_tvec, set._edge1)), invdet)},
                      done \in {[set EXCEPT !._pvec = _pvec, !._tvec = _tvec,
                                            !._qvec = Cross(_tvec, set._edge1)]}
                    } : TRUE
             : invdet \in {RDiv(One, det)},
               _tvec \in {subtract(r.origin, vertex0)},
               bu \in {RMul(Dot(subtract(r.origin, vertex0), _pvec), RDiv(One, det))}
             } : TRUE
      : _pvec \in {Cross(r.direction, set._edge2)},
        det \in {Dot(set._edge1, Cross(r.direction, set._edge2))}
      } : TRUE
    : set \in {[r EXCEPT !._vectorsSet = TRUE,
                         !._edge1 = subtract(vertex1, vertex0),
                         !._edge2 = subtract(vertex2, vertex0),
                         !._pvec = IF r._vectorsSet THEN @ ELSE <<Zero, Zero, Zero>>,
                         !._tvec = IF r._vectorsSet THEN @ ELSE <<Zero, Zero, Zero>>,
                         !._qvec = IF r._vectorsSet THEN @ ELSE <<Zero, Zero, Zero>>]}
    } : TRUE

\* the vector of the integers x, y, z
V(x, y, z) == Vector3(R(x), R(y), R(z))

\* the rays, boxes and triangles of the runs
Origins == {V(0, 0, -1), V(0, 0, -5), V(0, 0, 1), V(2, 0, -1), V(0, 3, 0)}
Directions == {V(0, 0, 1), V(0, 0, -1), V(1, 0, 1), V(0, -1, 0)}
RayLengths == {R(10), R(1)}
Boxes ==
  {<<V(-1, -1, -1), V(1, 1, 1)>>, <<V(5, -1, -1), V(7, 1, 1)>>,
   <<V(-1, -1, 2), V(1, 1, 3)>>, <<V(1, -1, -1), V(3, 1, 1)>>}
Triangles ==
  {<<V(-1, -1, 0), V(1, -1, 0), V(0, 1, 0)>>,
   <<V(-1, -1, 0), V(0, 1, 0), V(1, -1, 0)>>,
   <<V(-1, -1, 0), V(0, 0, 0), V(1, 1, 0)>>,
   <<V(0, -1, -1), V(0, 1, -1), V(0, 0, 2)>>,
   <<V(4, -1, 3), V(6, -1, 3), V(5, 1, 3)>>,
   <<V(-2, -2, 4), V(4, -2, 4), V(-2, 4, 4)>>}

InitRay ==
  /\ EngineConstructed
  /\ engine._currentFramebuffer = NULL
  /\ engine._activeTexture = Indeterminate
  /\ env = EnvInit
  /\ bones = <<>>
  /\ sps = <<>>
  /\ \E o \in Origins, dir \in Directions, len \in RayLengths :
       ray = [ray |-> Ray(o, dir, len), ops |-> 0]

\* the query  op(args)  on the ray has returned  ret  and left the ray  r
CommitRay(r, op, args, ret) ==
  /\ ray' = [ray |-> r, ops |-> ray.ops + 1]
  /\ lastOp' = [op |-> op, args |-> args, ret |-> ret, thrown |-> FALSE]
  /\ UNCHANGED <<engine, gl, buffers, textures, crashed, bindRun, lastViewport, env, bones,
                 sps>>

IntersectsBoxMinMax ==
  /\ ray.ops < MaxRayOps
  /\ \E box \in Boxes :
       CommitRay(ray.ray, "intersectsBoxMinMax", box,
                 intersectsBoxMinMax(ray.ray, box[1], box[2]))

IntersectsTriangle ==
  /\ ray.ops < MaxRayOps
  /\ \E t \in Triangles :
       \E hit \in {intersectsTriangle(ray.ray, t[1], t[2], t[3])} :
         CommitRay(hit.ray, "intersectsTriangle", t, hit.ret)

NextRay ==
  \/ IntersectsBoxMinMax
  \/ IntersectsTriangle

SpecRay == InitRay /\ [][NextRay]_vars

(***************************************************************************)
(* Properties of the ray queries.                                          *)
(***************************************************************************)

\* the point of the ray  r  at the parametric distance  t
PointAt(r, t) ==
  <<RAdd(r.origin[1], RMul(t, r.direction[1])),
    RAdd(r.origin[2], RMul(t, r.direction[2])),
    RAdd(r.origin[3], RMul(t, r.direction[3]))>>

\* the point of the plane of the triangle  t  with the coordinates (u, v)
PointOf(t, u, v) ==
  <<RAdd(t[1][1], RAdd(RMul(u, RSub(t[2][1], t[1][1])), RMul(v, RSub(t[3][1], t[1][1])))),
    RAdd(t[1][2], RAdd(RMul(u, RSub(t[2][2], t[1][2])), RMul(v, RSub(t[3][2], t[1][2])))),
    RAdd(t[1][3], RAdd(RMul(u, RSub(t[2][3], t[1][3])), RMul(v, RSub(t[3][3], t[1][3]))))>>

\* where the line of the ray  r  meets the plane of the triangle  t , by
\* Cramer's rule: the determinant and, when it is not zero, (u, v, distance)
Meet(r, t) ==
  LET e1 == subtract(t[2], t[1])
      e2 == subtract(t[3], t[1])
      tv == subtract(r.origin, t[1])
      det == Dot(e1, Cross(r.direction, e2))
  IN IF det = Zero THEN [det |-> det, u |-> Zero, v |-> Zero, distance |-> Zero]
     ELSE [det |-> det,
           u |-> RDiv(Dot(tv, Cross(r.direction, e2)), det),
           v |-> RDiv(Dot(r.direction, Cross(tv, e1)), det),
           distance |-> RDiv(Dot(e2, Cross(tv, e1)), det)]

\* C31: intersectsTriangle reports a hit exactly when the determinant is
\* not near zero, u >= 0, v >= 0, u + v <= 1 and the distance does not
\* exceed the ray's length; the result carries (u, v, distance), the
\* coordinates of the point where the ray meets the triangle; the ray from
\* (0,0,-1) along (0,0,1) of length 10 hits the triangle (-1,-1,0),
\* (1,-1,0), (0,1,0) at distance 1.
C31_TriangleHit ==
  lastOp.op = "intersectsTriangle" =>
    LET m == Meet(ray.ray, lastOp.args)
    IN /\ (lastOp.ret # <<>>) <=>
            /\ ~almost_equal(m.det, Zero)
            /\ RLessEq(Zero, m.u)
            /\ RLessEq(Zero, m.v)
            /\ RLessEq(RAdd(m.u, m.v), One)
            /\ RLessEq(m.distance, ray.ray.length)
       /\ lastOp.ret # <<>> =>
            /\ lastOp.ret = [bu |-> m.u, bv |-> m.v, distance |-> m.distance]
            /\ PointAt(ray.ray, lastOp.ret.distance) =
                 PointOf(lastOp.args, lastOp.ret.bu, lastOp.ret.bv)
       /\ (/\ ray.ray.origin = V(0, 0, -1)
           /\ ray.ray.direction = V(0, 0, 1)
           /\ ray.ray.length = R(10)
           /\ lastOp.args = <<V(-1, -1, 0), V(1, -1, 0), V(0, 1, 0)>>) =>
            /\ lastOp.ret # <<>>
            /\ lastOp.ret.distance = One

\* the hit of the example: distance 1 on the ray from (0,0,-1) along (0,0,1)
C31_Witness ==
  /\ lastOp.op = "intersectsTriangle"
  /\ ray.ray.origin = V(0, 0, -1)
  /\ ray.ray.direction = V(0, 0, 1)
  /\ ray.ray.length = R(10)
  /\ lastOp.args = <<V(-1, -1, 0), V(1, -1, 0), V(0, 1, 0)>>
  /\ lastOp.ret # <<>>
  /\ lastOp.ret.distance = One
  /\ ray.ray._vectorsSet

\* C40: every hit returned by intersectsTriangle lies on the ray: its
\* distance is at least 0 and at most the length, so a triangle behind the
\* origin of the ray is no hit.
C40_HitOnRay ==
  (lastOp.op = "intersectsTriangle" /\ lastOp.ret # <<>>) =>
    /\ RLessEq(Zero, lastOp.ret.distance)
    /\ RLessEq(lastOp.ret.distance, ray.ray.length)

\* the upper bound alone
HitWithinLength ==
  (lastOp.op = "intersectsTriangle" /\ lastOp.ret # <<>>) =>
    RLessEq(lastOp.ret.distance, ray.ray.length)

\* the axes on which the ray  r  moves
MovingAxes(r) == {c \in 1..3 : ~RLess(RAbs(r.direction[c]), DirectionEpsilon)}

\* the parametric distances at which the ray  r  enters and leaves the
\* slabs of the box on the axes on which it moves
Entries(r, box) ==
  {RMin(RDiv(RSub(box[1][c], r.origin[c]), r.direction[c]),
        RDiv(RSub(box[2][c], r.origin[c]), r.direction[c])) : c \in MovingAxes(r)}
Exits(r, box) ==
  {RMax(RDiv(RSub(box[1][c], r.origin[c]), r.direction[c]),
        RDiv(RSub(box[2][c], r.origin[c]), r.direction[c])) : c \in MovingAxes(r)}

\* the point  p  is in the box
InBox(p, box) ==
  \A c \in 1..3 : RLessEq(box[1][c], p[c]) /\ RLessEq(p[c], box[2][c])

\* C32: intersectsBoxMinMax is the slab test: it returns true exactly when
\* the interval [d, maxValue], started at [0, max float] and intersected on
\* each axis with that axis's entry and exit distances (an axis with a
\* near-zero direction admits the ray only with the origin inside the
\* slab), is not empty after the three axes, which is when a point of the
\* ray is in the box; the ray from (0,0,-5) along (0,0,1) hits the box
\* [-1,1]^3 and misses the box moved to x in [5,7].
C32_SlabTest ==
  lastOp.op = "intersectsBoxMinMax" =>
    LET r == ray.ray
        box == lastOp.args
    IN /\ lastOp.ret <=>
            /\ \A c \in (1..3) \ MovingAxes(r) :
                 RLessEq(box[1][c], r.origin[c]) /\ RLessEq(r.origin[c], box[2][c])
            /\ \A e \in Entries(r, box) \cup {Zero} :
                 \A x \in Exits(r, box) \cup {FloatMax} : RLessEq(e, x)
       /\ lastOp.ret <=>
            \E t \in Entries(r, box) \cup {Zero} :
              RLessEq(Zero, t) /\ RLessEq(t, FloatMax) /\ InBox(PointAt(r, t), box)
       /\ (r.origin = V(0, 0, -5) /\ r.direction = V(0, 0, 1)) =>
            /\ box = <<V(-1, -1, -1), V(1, 1, 1)>> => lastOp.ret
            /\ box = <<V(5, -1, -1), V(7, 1, 1)>> => ~lastOp.ret

\* the hit of the example: the ray from (0,0,-5) along (0,0,1) and the box
\* [-1,1]^3
C32_Witness ==
  /\ lastOp.op = "intersectsBoxMinMax"
  /\ ray.ray.origin = V(0, 0, -5)
  /\ ray.ray.direction = V(0, 0, 1)
  /\ lastOp.args = <<V(-1, -1, -1), V(1, 1, 1)>>
  /\ lastOp.ret

(***************************************************************************)
(* The attribute pointers.                                                 *)
(***************************************************************************)

\* the slots, sizes and offsets of the pointers the client sets
PointerSlots == {0, 1}
PointerSizes == {3, 4}
PointerOffsets == {0, 12}

\* a client call of vertexAttribPointer on any slot
SetVertexAttribPointer ==
  /\ ~crashed
  /\ \E buffer \in CreatedBuffers, indx \in PointerSlots, size \in PointerSizes,
        normalized \in BOOLEAN, offset \in PointerOffsets :
       Commit(vertexAttribPointer(World, buffer, indx, size, "FLOAT", normalized, 16, offset),
              "vertexAttribPointer", <<buffer, indx, size, "FLOAT", normalized, 16, offset>>)
  /\ bindRun' = <<>>
  /\ UNCHANGED lastViewport

NextPointers ==
  \/ CreateVertexBuffer
  \/ SetVertexAttribPointer
  \/ WipeCaches

SpecPointers == InitNoTextures /\ [][NextPointers]_vars

\* the BufferPointer of a request (buffer, indx, size, type, normalized,
\* stride, offset)
Requested(args) ==
  [indx |-> args[2], size |-> args[3], type |-> args[4], normalized |-> args[5],
   stride |-> args[6], offset |-> args[7], buffer |-> args[1]]

\* the request differs from what is cached for its slot
PointerChanged(ptrs, args) ==
  args[2] \notin DOMAIN ptrs \/ ptrs[args[2]] # Requested(args)

\* after the call the slot holds the request and the other slots are as
\* they were
PointerCached(ptrs, after, args) ==
  /\ DOMAIN after = DOMAIN ptrs \cup {args[2]}
  /\ after[args[2]] = Requested(args)
  /\ \A slot \in DOMAIN ptrs \ {args[2]} : after[slot] = ptrs[slot]

\* C33: vertexAttribPointer issues the device calls, the bind of the array
\* buffer followed by the device vertexAttribPointer, exactly when no
\* pointer is cached for the slot or a component of the cached (buffer,
\* size, type, normalized, stride, offset) differs from the request; in both
\* cases the slot caches the request afterwards and the other slots are
\* unchanged.
C33_PointerCalls ==
  [][lastOp'.op = "vertexAttribPointer" =>
       /\ gl'.calls =
            IF PointerChanged(engine._currentBufferPointers, lastOp'.args)
            THEN <<<<"bindBuffer", ARRAY_BUFFER, lastOp'.args[1]>>,
                   <<"vertexAttribPointer", lastOp'.args[2], lastOp'.args[3], lastOp'.args[4],
                     lastOp'.args[5], lastOp'.args[6], lastOp'.args[7]>>>>
            ELSE <<>>
       /\ PointerCached(engine._currentBufferPointers, engine'._currentBufferPointers,
                        lastOp'.args)]_vars

\* C33 as the code has it: the device vertexAttribPointer is issued exactly
\* when the request differs from the cached pointer of the slot, after
\* bindArrayBuffer, which issues the device bind only when the buffer is not
\* the cached array buffer.
C33_PointerCallsCachedBind ==
  [][lastOp'.op = "vertexAttribPointer" =>
       /\ gl'.calls =
            IF PointerChanged(engine._currentBufferPointers, lastOp'.args)
            THEN (IF \/ ARRAY_BUFFER \notin DOMAIN engine._currentBoundBuffer
                     \/ engine._currentBoundBuffer[ARRAY_BUFFER] # lastOp'.args[1]
                  THEN <<<<"bindBuffer", ARRAY_BUFFER, lastOp'.args[1]>>>>
                  ELSE <<>>)
                 \o <<<<"vertexAttribPointer", lastOp'.args[2], lastOp'.args[3],
                        lastOp'.args[4], lastOp'.args[5], lastOp'.args[6], lastOp'.args[7]>>>>
            ELSE <<>>
       /\ PointerCached(engine._currentBufferPointers, engine'._currentBufferPointers,
                        lastOp'.args)]_vars

\* a pointer was set on slot 1 for the buffer that slot 0 had bound: the
\* device got the pointer and no bind
C33_Witness ==
  /\ lastOp.op = "vertexAttribPointer"
  /\ lastOp.args[2] = 1
  /\ 0 \in DOMAIN engine._currentBufferPointers
  /\ engine._currentBufferPointers[0].buffer = lastOp.args[1]
  /\ Len(gl.calls) = 1
  /\ gl.calls[1][1] = "vertexAttribPointer"

(***************************************************************************)
(* Reads of a bone: position, rotation, direction and scale.  Lengths are  *)
(* exact: the matrices of the runs are translations, quarter turns and     *)
(* axis scalings, whose rows have rational lengths.                        *)
(***************************************************************************)

\* the square root of the rational  q , a square of a rational
Sqrt(q) ==
  <<CHOOSE k \in 0..q[1] : k * k = q[1], CHOOSE k \in 0..q[2] : k * k = q[2]>>

\* Vector3::length and Vector3::normalize
Length(v) == Sqrt(Dot(v, v))
normalize(v) ==
  CHOOSE result \in {
    IF len = Zero THEN v ELSE <<RDiv(v[1], len), RDiv(v[2], len), RDiv(v[3], len)>>
    : len \in {Length(v)}} : TRUE

\* Vector3::TransformNormalToRef: the vector through the upper 3x3 block
TransformNormal(vector, transformation) ==
  CHOOSE result \in {
    <<RAdd(RAdd(RMul(v[1], M(t, 0)), RMul(v[2], M(t, 4))), RMul(v[3], M(t, 8))),
      RAdd(RAdd(RMul(v[1], M(t, 1)), RMul(v[2], M(t, 5))), RMul(v[3], M(t, 9))),
      RAdd(RAdd(RMul(v[1], M(t, 2)), RMul(v[2], M(t, 6))), RMul(v[3], M(t, 10)))>>
    : v \in {vector}, t \in {transformation}} : TRUE

\* the rotation that Matrix::decompose gives: the rows of the upper 3x3
\* block, each divided by its length (the quaternion is this rotation)
decompose(mat) ==
  <<normalize(<<M(mat, 0), M(mat, 1), M(mat, 2)>>),
    normalize(<<M(mat, 4), M(mat, 5), M(mat, 6)>>),
    normalize(<<M(mat, 8), M(mat, 9), M(mat, 10)>>)>>

\* getRotation and getRotationToRef
getRotation(skeleton, b, space, mesh) ==
  IF space = "LOCAL"
  THEN [skeleton EXCEPT !.ret = decompose(skeleton.bones[b]._matrix)]
  ELSE IF mesh # NULL
  THEN [skeleton EXCEPT !.ret =
          decompose(multiply(skeleton.bones[b]._absoluteTransform, MeshWorldMatrix))]
  ELSE [skeleton EXCEPT !.ret = decompose(skeleton.bones[b]._absoluteTransform)]

\* getDirection and getDirectionToRef
getDirection(skeleton, b, localAxis, mesh) ==
  CHOOSE result \in {
    [s EXCEPT !.ret =
       normalize(TransformNormal(localAxis,
                                 IF mesh # NULL
                                 THEN multiply(s.bones[b]._absoluteTransform, MeshWorldMatrix)
                                 ELSE s.bones[b]._absoluteTransform))]
    : s \in {SkeletonComputeAbsoluteTransforms(skeleton)}} : TRUE

\* getAbsolutePosition and getAbsolutePositionToRef
getAbsolutePosition(skeleton, b, mesh) == getPosition(skeleton, b, "WORLD", mesh)

\* getScale and getScaleToRef
getScale(skeleton, b) == [skeleton EXCEPT !.ret = skeleton.bones[b]._scaleVector]

LocalAxes == {Vector3(One, Zero, Zero), Vector3(Zero, One, Zero)}

GetAbsolutePosition ==
  /\ ~crashed
  /\ \E b \in BoneIds, mesh \in Meshes :
       \E s \in {getAbsolutePosition(BoneWorld, b, mesh)} :
         CommitBones(s, "getAbsolutePosition", <<b, "WORLD", mesh>>, 0)

GetRotation ==
  /\ ~crashed
  /\ \E b \in BoneIds, space \in Spaces, mesh \in Meshes :
       /\ space = "LOCAL" => mesh = NULL
       /\ \E s \in {getRotation(BoneWorld, b, space, mesh)} :
            CommitBones(s, "getRotation", <<b, space, mesh>>, 0)

GetDirection ==
  /\ ~crashed
  /\ \E b \in BoneIds, localAxis \in LocalAxes, mesh \in Meshes :
       \E s \in {getDirection(BoneWorld, b, localAxis, mesh)} :
         CommitBones(s, "getDirection", <<b, "WORLD", mesh, localAxis>>, 0)

GetScale ==
  /\ ~crashed
  /\ \E b \in BoneIds :
       \E s \in {getScale(BoneWorld, b)} :
         CommitBones(s, "getScale", <<b, "LOCAL", NULL>>, 0)

\* edits of the local matrices and reads of the bones
NextReads ==
  \/ UpdateMatrix
  \/ GetPosition
  \/ GetAbsolutePosition
  \/ GetRotation
  \/ GetDirection
  \/ GetScale

SpecReads == InitBones /\ [][NextReads]_vars

(***************************************************************************)
(* Properties of the reads.                                                *)
(***************************************************************************)
Reads == {"getPosition", "getAbsolutePosition", "getRotation", "getDirection", "getScale"}

\* the absolute transform a world-space read of bone  b  is due: that of
\* the refreshed skeleton, through the mesh when one is given
FreshTransform(refreshed, b, mesh) ==
  IF mesh # NULL
  THEN multiply(refreshed.bones[b]._absoluteTransform, MeshWorldMatrix)
  ELSE refreshed.bones[b]._absoluteTransform

\* the last operation is a world-space read named by  ops : the skeleton is
\* refreshed (a refresh changes no local matrix, so that the refreshed
\* skeleton is the one that a further refresh leaves as it is) and the read
\* returned  value  of the fresh absolute transform
RefreshedRead(ops, value(_, _)) ==
  (lastOp.op \in ops /\ lastOp.args[2] = "WORLD") =>
    \E refreshed \in {SkeletonComputeAbsoluteTransforms(BoneWorld)} :
      /\ bones = refreshed.bones
      /\ lastOp.ret =
           value(FreshTransform(refreshed, lastOp.args[1], lastOp.args[3]), lastOp.args)

PositionOf(mat, args) == TranslationOf(mat)
RotationOf(mat, args) == decompose(mat)
DirectionOf(mat, args) == normalize(TransformNormal(args[4], mat))

\* local-space reads and getScale leave the bones as they are
LocalReadsChangeNothing ==
  (lastOp'.op \in Reads /\ lastOp'.args[2] = "LOCAL") => bones' = bones /\ env' = env

\* C34: every world-space read of a bone (getPosition and
\* getAbsolutePosition, getRotation in WORLD space, getDirection) first
\* refreshes the absolute transforms of the skeleton, so that the value
\* returned reflects every edit of a local matrix made before the read,
\* updateMatrix(m, false) included; local-space reads and getScale change no
\* state of a bone.
C34_WorldReadsRefresh ==
  /\ [](/\ RefreshedRead({"getPosition", "getAbsolutePosition"}, PositionOf)
        /\ RefreshedRead({"getRotation"}, RotationOf)
        /\ RefreshedRead({"getDirection"}, DirectionOf))
  /\ [][LocalReadsChangeNothing]_vars

\* the same without the rotation
PositionAndDirectionRefresh ==
  /\ [](/\ RefreshedRead({"getPosition", "getAbsolutePosition"}, PositionOf)
        /\ RefreshedRead({"getDirection"}, DirectionOf))
  /\ [][LocalReadsChangeNothing]_vars

(***************************************************************************)
(* Render targets of a requested type and sampling mode.                   *)
(***************************************************************************)

\* the extensions of the device that the capabilities depend on
Extensions ==
  {"GL_ARB_texture_float", "OES_texture_half_float", "OES_texture_half_float_linear"}

\* the members of _caps that the constructor sets and createRenderTargetTexture
\* reads; they are never assigned again
_caps(w) ==
  [textureFloat |-> "GL_ARB_texture_float" \in w.env.extensions,
   textureFloatLinearFiltering |-> TRUE,
   textureHalfFloat |-> "OES_texture_half_float" \in w.env.extensions,
   textureHalfFloatLinearFiltering |-> "OES_texture_half_float_linear" \in w.env.extensions]

TextureTypes == {"TEXTURETYPE_UNSIGNED_INT", "TEXTURETYPE_FLOAT", "TEXTURETYPE_HALF_FLOAT"}
SamplingModes == {"NEAREST_SAMPLINGMODE", "BILINEAR_SAMPLINGMODE", "TRILINEAR_SAMPLINGMODE"}

\* the sampling mode and the type createRenderTargetTexture records for a
\* request, with a plausible fault: half-float requests keep their sampling
RecordedFormat_half(caps, type, samplingMode) ==
  [samplingMode |->
     IF type = "TEXTURETYPE_FLOAT" /\ ~caps.textureFloatLinearFiltering
     THEN "NEAREST_SAMPLINGMODE"
     ELSE samplingMode,
   type |->
     IF type = "TEXTURETYPE_FLOAT" /\ ~caps.textureFloat
     THEN "TEXTURETYPE_UNSIGNED_INT"
     ELSE type]

\* the sampling mode and the type createRenderTargetTexture records for a
\* request
RecordedFormat(caps, type, samplingMode) ==
  [samplingMode |->
     IF type = "TEXTURETYPE_FLOAT" /\ ~caps.textureFloatLinearFiltering
     THEN "NEAREST_SAMPLINGMODE"
     ELSE IF type = "TEXTURETYPE_HALF_FLOAT" /\ ~caps.textureHalfFloatLinearFiltering
     THEN "NEAREST_SAMPLINGMODE"
     ELSE samplingMode,
   type |->
     IF type = "TEXTURETYPE_FLOAT" /\ ~caps.textureFloat
     THEN "TEXTURETYPE_UNSIGNED_INT"
     ELSE type]

\* createRenderTargetTexture(size, options) with the type and the sampling
\* mode of the options
createRenderTargetTextureOptions(w, generateMipMaps, type, samplingMode) ==
  CHOOSE result \in {
    [created EXCEPT !.textures[created.ret] =
       [created |-> @.created, _framebuffer |-> @._framebuffer,
        generateMipMaps |-> @.generateMipMaps, isCube |-> @.isCube, isReady |-> @.isReady,
        references |-> @.references, samplingMode |-> format.samplingMode,
        type |-> format.type]]
    : created \in {createRenderTargetTexture(w, generateMipMaps)},
      format \in {RecordedFormat(_caps(w), type, samplingMode)}} : TRUE

\* an engine on a device with any of the extensions
InitRenderTargets ==
  /\ EngineConstructed
  /\ engine._currentFramebuffer = NULL
  /\ engine._activeTexture = Indeterminate
  /\ \E extensions \in SUBSET Extensions : env = [EnvInit EXCEPT !.extensions = extensions]
  /\ bones = <<>>
  /\ sps = <<>>
  /\ ray = <<>>

CreateRenderTargetTextureOptions ==
  /\ ~crashed /\ CanCreateTexture
  /\ \E generateMipMaps \in BOOLEAN, type \in TextureTypes, samplingMode \in SamplingModes :
       Commit(createRenderTargetTextureOptions(World, generateMipMaps, type, samplingMode),
              "createRenderTargetTexture", <<generateMipMaps, type, samplingMode>>)
  /\ bindRun' = <<>>
  /\ UNCHANGED lastViewport

NextRenderTargets ==
  \/ CreateRenderTargetTextureOptions
  \/ CreateRenderTargetCubeTexture

SpecRenderTargets == InitRenderTargets /\ [][NextRenderTargets]_vars

TargetMatchesFramebuffer ==
  IF engine._currentRenderTarget # NULL
  THEN /\ engine._currentFramebuffer = textures[engine._currentRenderTarget]._framebuffer
       /\ gl.framebuffer = textures[engine._currentRenderTarget]._framebuffer
  ELSE /\ engine._currentFramebuffer = NULL
       /\ gl.framebuffer = NULL

\* C37: in every reachable state the current render target and the cached
\* framebuffer agree: _currentRenderTarget is not null exactly when the
\* cached and device-bound framebuffer is that texture's framebuffer, and it
\* is null exactly when the default framebuffer is bound; creating a render
\* target texture or cube texture while another render target is bound does
\* not change which framebuffer is bound.
C37_TargetMatchesFramebuffer ==
  /\ [](~crashed => TargetMatchesFramebuffer)
  /\ [][(lastOp'.op \in {"createRenderTargetTexture", "createRenderTargetCubeTexture"}
         /\ engine._currentRenderTarget # NULL) =>
          /\ gl'.framebuffer = gl.framebuffer
          /\ engine'._currentFramebuffer = engine._currentFramebuffer]_vars

\* the agreement right after the operations that bind and unbind a target
BindingsSetTargetAndFramebuffer ==
  (lastOp.op \in {"bindFramebuffer", "unBindFramebuffer", "restoreDefaultFramebuffer"}
   /\ ~crashed) => TargetMatchesFramebuffer

(***************************************************************************)
(* The slices setParticles writes.                                         *)
(***************************************************************************)

\* the slice of the k-th particle in a flat array of  per  floats a vertex
SliceOf(s, array, k, per) ==
  SubSeq(array, (SliceOffset(s.particles, k) \div 3) * per + 1,
         (SliceOffset(s.particles, k + 1) \div 3) * per)

\* a call of setParticles(start, end) wrote the vertices of every particle of
\* start..end into the particle's own slice and left the other slices alone
WritesOwnSlices(before, after, start, end) ==
  \A k \in DOMAIN before.particles :
    IF k - 1 >= start /\ k - 1 <= end
    THEN /\ Slice(before, after._positions32, k) =
              (IF before.particles[k].isVisible
               THEN Flat(PlacedShape(before.particles[k]))
               ELSE Flat([v \in DOMAIN before.particles[k]._shape |-> CameraPosition]))
    ELSE /\ SliceOf(before, after._positions32, k, 3) = SliceOf(before, before._positions32, k, 3)
         /\ SliceOf(before, after._normals32, k, 3) = SliceOf(before, before._normals32, k, 3)
         /\ SliceOf(before, after._colors32, k, 4) = SliceOf(before, before._colors32, k, 4)
         /\ SliceOf(before, after._uvs32, k, 2) = SliceOf(before, before._uvs32, k, 2)

\* C36: setParticles(start, end, update) with 0 <= start <= end <
\* nbParticles writes the vertices of each particle of start..end into the
\* particle's own slice of the flat position, normal, colour and uv arrays
\* and leaves the slices of the particles outside start..end unchanged; a
\* call with start > 0 does not overwrite the slices of the particles
\* 0..start-1.
C36_OwnSlices ==
  [][(/\ lastOp'.op = "setParticles"
      /\ lastOp'.args[1] <= lastOp'.args[2]
      /\ lastOp'.args[2] < sps.system.nbParticles
      /\ sps.system._updatable
      /\ Built(sps.system)) =>
       /\ ~crashed'
       /\ WritesOwnSlices(sps.system, sps'.system, lastOp'.args[1], lastOp'.args[2])]_vars

\* the same for the calls that start at the first particle
OwnSlicesFromFirst ==
  [][(/\ lastOp'.op = "setParticles"
      /\ lastOp'.args[1] = 0
      /\ lastOp'.args[1] <= lastOp'.args[2]
      /\ lastOp'.args[2] < sps.system.nbParticles
      /\ sps.system._updatable
      /\ Built(sps.system)) =>
       /\ ~crashed'
       /\ WritesOwnSlices(sps.system, sps'.system, lastOp'.args[1], lastOp'.args[2])]_vars

(***************************************************************************)
(* Releases: the textures of the loaded-textures cache and the effects of  *)
(* the compiled-effects map.  Both containers own their objects            *)
(* (std::unique_ptr): erasing an entry destroys the object.                *)
(***************************************************************************)

\* _loadedTexturesCache holds the unique_ptr of  texture
OwnsTexture(w, texture) ==
  \E i \in DOMAIN w.engine._loadedTexturesCache : w.engine._loadedTexturesCache[i] = texture

\* a read of  field  of  object , recorded with whether the owner still
\* holds the object
Access(w, object, field, owned) ==
  [w EXCEPT !.env.accesses = Append(@, [object |-> object, field |-> field, owned |-> owned])]

\* erase(remove_if(...)) on the cache: the unique_ptr of  texture  goes and
\* with it the IGLTexture
eraseTexture(w, texture) ==
  [w EXCEPT !.engine._loadedTexturesCache = SelectSeq(@, LAMBDA t : t # texture),
            !.textures[texture].created =
               IF OwnsTexture(w, texture) THEN FALSE ELSE @]

\* Engine::_releaseTexture;  ub  is what the reads of a destroyed texture do
_releaseTexture(w, texture, ub) ==
  CHOOSE result \in {
    IF ~OwnsTexture(s, texture) /\ ub = "crash"
    THEN [Access(s, texture, "_framebuffer", FALSE) EXCEPT !.crashed = TRUE]
    ELSE LET w1 == Access(s, texture, "_framebuffer", OwnsTexture(s, texture))
             w2 == IF s.textures[texture]._framebuffer # NULL
                   THEN GlCall(w1, <<"deleteFramebuffer", s.textures[texture]._framebuffer>>)
                   ELSE w1
             w3 == Access(w2, texture, "_depthBuffer", OwnsTexture(s, texture))
             w4 == IF s.textures[texture]._framebuffer # NULL
                   THEN GlCall(w3, <<"deleteRenderbuffer", s.textures[texture]._framebuffer>>)
                   ELSE w3
             w5 == GlCall(Access(w4, texture, "handle", OwnsTexture(s, texture)),
                          <<"deleteTexture", texture>>)
         IN eraseTexture(unbindAllTextures(w5), texture)
    : s \in {w}} : TRUE

\* Engine::releaseInternalTexture
releaseInternalTexture(w, texture, ub) ==
  CHOOSE result \in {
    IF texture = NULL THEN s
    ELSE IF s.textures[texture].references - 1 = 0
    THEN _releaseTexture(
           eraseTexture([s EXCEPT !.textures[texture].references = @ - 1], texture),
           texture, ub)
    ELSE [s EXCEPT !.textures[texture].references = @ - 1]
    : s \in {w}} : TRUE

\* the names of the shaders and the defines of the effects of a run
BaseNames == {"color"}
Defines == {"", "#define FOG"}
\* the devices an effect is compiled on: the program links or does not
EffectDevices == {d \in DeviceAnswers : d.vertex /\ d.fragment /\ d.log}

\* Engine::createEffect(baseName, ..., defines, ...); the Effect, which its
\* key names, holds the program its constructor has compiled
createEffect(w, baseName, defines, device) ==
  CHOOSE result \in {
    IF name \in DOMAIN s.engine._compiledEffects THEN s
    ELSE CHOOSE made \in {
           [compiled EXCEPT
              !.engine._compiledEffects =
                 Put(@, name, [_key |-> name, _program |-> compiled.ret]),
              !.ret = NULL]
           : compiled \in {createShaderProgram(s, defines # "", device)}} : TRUE
    : s \in {w}, name \in {baseName \o "+" \o baseName \o "@" \o defines}} : TRUE

\* Engine::_releaseEffect;  effect  is the key of a compiled effect and  ub
\* is what the read of a destroyed effect does
_releaseEffect(w, effect, ub) ==
  CHOOSE result \in {
    IF effect \notin DOMAIN s.engine._compiledEffects
    THEN Access(s, effect, "_key", FALSE)
    ELSE LET w1 == Access(Access(s, effect, "_key", TRUE), effect, "_key", TRUE)
             w2 == [w1 EXCEPT !.engine._compiledEffects =
                                 [k \in DOMAIN @ \ {effect} |-> @[k]]]
             w3 == Access(w2, effect, "_program", effect \in DOMAIN w2.engine._compiledEffects)
         IN IF ub = "crash" THEN [w3 EXCEPT !.crashed = TRUE]
            ELSE IF s.engine._compiledEffects[effect]._program # NULL
            THEN GlCall(w3, <<"deleteProgram", s.engine._compiledEffects[effect]._program>>)
            ELSE w3
    : s \in {w}} : TRUE

\* the world a release starts in: nothing read yet
ReleaseWorld == [World EXCEPT !.env.accesses = <<>>]

ReleaseInternalTexture ==
  /\ ~crashed
  /\ \E texture \in {t \in CreatedTextures : OwnsTexture(World, t)} \cup {NULL}, ub \in UBOutcomes :
       \E s \in {releaseInternalTexture(ReleaseWorld, texture, ub)} :
         Commit(s, "releaseInternalTexture", <<texture>>)
  /\ bindRun' = <<>>
  /\ UNCHANGED lastViewport

ReleaseTexture ==
  /\ ~crashed
  /\ \E texture \in {t \in CreatedTextures : OwnsTexture(World, t)}, ub \in UBOutcomes :
       \E s \in {_releaseTexture(ReleaseWorld, texture, ub)} :
         Commit(s, "_releaseTexture", <<texture>>)
  /\ bindRun' = <<>>
  /\ UNCHANGED lastViewport

CreateEffect ==
  /\ ~crashed
  /\ Len(env.programs) < MaxPrograms
  /\ \E baseName \in BaseNames, defines \in Defines, device \in EffectDevices :
       \E s \in {createEffect(World, baseName, defines, device)} :
         Commit(s, "createEffect", <<baseName, defines, device.linked>>)
  /\ bindRun' = <<>>
  /\ UNCHANGED lastViewport

ReleaseEffect ==
  /\ ~crashed
  /\ \E effect \in DOMAIN engine._compiledEffects, ub \in UBOutcomes :
       \E s \in {_releaseEffect(ReleaseWorld, effect, ub)} :
         Commit(s, "_releaseEffect", <<effect>>)
  /\ bindRun' = <<>>
  /\ UNCHANGED lastViewport

\* the creation and the release of textures and effects
NextRelease ==
  \/ CreateRenderTargetTexture
  \/ CreateRenderTargetCubeTexture
  \/ CreateEffect
  \/ ReleaseInternalTexture
  \/ ReleaseTexture
  \/ ReleaseEffect

SpecRelease == InitNoTextures /\ [][NextRelease]_vars

\* every read of the last operation found the object with its owner
ReadsWhileOwned ==
  /\ ~crashed
  /\ \A i \in DOMAIN env.accesses : env.accesses[i].owned

\* C38: no release reads a resource after its owner has destroyed it: during
\* releaseInternalTexture on the final reference the texture is still owned
\* by the loaded-textures cache wherever its framebuffer, depth buffer or
\* handle is read, during _releaseEffect the effect is still owned by the
\* compiled-effects map when its program is read, and the entry of the owner
\* is removed only after the last access.
C38_ReadsWhileOwned ==
  /\ (lastOp.op = "releaseInternalTexture" /\ lastOp.args[1] # NULL) =>
       /\ ReadsWhileOwned
       /\ ~OwnsTexture(World, lastOp.args[1])
  /\ lastOp.op = "_releaseEffect" =>
       /\ ReadsWhileOwned
       /\ lastOp.args[1] \notin DOMAIN engine._compiledEffects

\* _releaseTexture called on a texture of the cache reads it while the cache
\* owns it and erases the entry last
ReleaseTextureReadsWhileOwned ==
  lastOp.op = "_releaseTexture" =>
    /\ ReadsWhileOwned
    /\ Len(env.accesses) = 3
    /\ ~OwnsTexture(World, lastOp.args[1])
    /\ gl.calls[Len(gl.calls)][1] # "deleteTexture"

(***************************************************************************)
(* The termination of digest.                                              *)
(***************************************************************************)

\* the passes of the facet loop of a call of digest on the mesh named  name :
\* every pass moves the facet counter on, none goes beyond the facets (the
\* clamp of the size has not wrapped), and there are no more passes than
\* facets
PassesAdvance(facets, name) ==
  /\ Len(facets) <= Len(SourceMesh(name).indices) \div 3
  /\ \A k \in DOMAIN facets :
       /\ facets[k][2] >= 1
       /\ facets[k][1] + facets[k][2] <= Len(SourceMesh(name).indices) \div 3

\* C39: digest terminates for every source mesh and every option value: in
\* each pass of its facet loop the facet counter strictly increases (the
\* size of a group is at least 1, also for facetNb = 0 with delta = 0, and
\* the size arithmetic does not wrap when the jittered size exceeds the
\* number of remaining or total facets), so the loop ends after at most
\* totalFacets passes.  (The calls that end at the read of the normals
\* through a null mesh are left out.)
C39_DigestTerminates ==
  (/\ lastOp.op = "digest"
   /\ (sps.system.mesh # NULL \/ lastOp.args[6] = "returns")) =>
    PassesAdvance(sps.system.facets, lastOp.args[1])

\* the same for the calls with facetNb >= 1 and without jitter
DigestTerminatesWithoutJitter ==
  (/\ lastOp.op = "digest"
   /\ (sps.system.mesh # NULL \/ lastOp.args[6] = "returns")
   /\ lastOp.args[2] >= 1
   /\ lastOp.args[4] = 0) =>
    PassesAdvance(sps.system.facets, lastOp.args[1])

\* the same for the calls with facetNb >= 1, whose loop ends whatever the
\* jitter is: every pass moves the facet counter on
DigestEndsFromOneFacet ==
  (/\ lastOp.op = "digest"
   /\ (sps.system.mesh # NULL \/ lastOp.args[6] = "returns")
   /\ lastOp.args[2] >= 1) =>
    /\ Len(sps.system.facets) <= Len(SourceMesh(lastOp.args[1]).indices) \div 3
    /\ \A k \in DOMAIN sps.system.facets : sps.system.facets[k][2] >= 1
====
